---- MODULE Spec2Model ----
(***************************************************************************)
(* Model of XpathConverterImpl (lib/converter/xpath-converter.impl.ts):    *)
(* the element-building pipeline buildElement / recurseThroughAttribute /  *)
(* buildChildren, applied to small XML documents.                          *)
(*                                                                         *)
(* Representation.                                                         *)
(*  - A document is a sequence of element nodes in document order          *)
(*    (pre-order); doc[n].parent is the index of the parent element, 0 for *)
(*    the enclosing scope node (<Commands>).                               *)
(*  - An attribute value is the sequence of its comma separated tokens:    *)
(*    <<"a","b">> is the text "a,b", <<"a">> is "a", <<>> is "".           *)
(*  - A built element is a record: attrs holds the attribute members,      *)
(*    label the element-name member ("" when the object has none, as the   *)
(*    {} that seeds R.reduce), hasDesc/desc the descendants member.        *)
(*    Attribute names never equal the element or descendants labels.       *)
(*  - spec is the converter's ISpec.  Spec, TextSpec and RecursionSpec run *)
(*    with a spec that has no coercion section and no labels/attributes,   *)
(*    so attribute values are taken verbatim and stored as members;        *)
(*    CoerceSpec runs coerceAttributeValue and the transformers on one raw *)
(*    attribute value, a string being the sequence of its characters.      *)
(*  - doc[n].text lists the child nodes of n that carry data (text, CDATA  *)
(*    and comment nodes) in document order; the text member of a built     *)
(*    element is kept in attrs under the text label.                       *)
(*  - RecursionSpec follows the nested buildElement calls one at a time.   *)
(*  - AssocSpec runs the transformers on associative collection literals   *)
(*    under specs that configure assoc/keyType and assoc/valueType.        *)
(*  - LabelSpec builds elements under a spec with labels/attributes: the   *)
(*    attributes are then a list of one-key objects under that label.      *)
(*  - CollisionSpec builds an element twice, under parse infos that differ *)
(*    in descendants.throwIfCollision only.                                *)
(*  - A thrown exception is a result with ok = FALSE and the kind in err.  *)
(***************************************************************************)
EXTENDS Integers, Sequences, FiniteSets, TLC

VARIABLES doc, parseInfo, pc, target, result, spec, rawValue, coerced, matcherType, transformed,
          frame

vars == <<doc, parseInfo, pc, target, result, spec, rawValue, coerced, matcherType, transformed,
          frame>>

\* ------------------------------------------------------------------ bounds
MaxRefs == 2
MaxChildren == 2

\* ------------------------------------------------------------ basic values
MissingName == "x"
NoNode == -1
Undefined == <<"undefined", "">>

EmptyAttrs == [k \in {} |-> <<>>]

EmptyDesc == [shape |-> "list", list |-> <<>>,
              index |-> [k \in {} |-> <<>>], group |-> [k \in {} |-> <<>>]]

EmptyElement == [attrs |-> EmptyAttrs, label |-> "", hasDesc |-> FALSE, desc |-> EmptyDesc]

ListDesc(l) == [EmptyDesc EXCEPT !.list = l]

EmptyElementInfo == [id |-> "", recurse |-> "", discards |-> {}, by |-> "", throwIfMissing |-> FALSE]

\* results of a call: a returned element, or a thrown error
Ok(el, calls) == [ok |-> TRUE, err |-> "", el |-> el, detail |-> EmptyElement, calls |-> calls]

Throw(err, detail, calls) == [ok |-> FALSE, err |-> err, el |-> EmptyElement, detail |-> detail, calls |-> calls]

\* ------------------------------------------------------------ the document
Nodes == 1..Len(doc)

NodeName(n) == doc[n].tag

HasChildNodes(n) == (\E m \in Nodes : doc[m].parent = n) \/ doc[n].text # <<>>

\* xpath.select('./*', elementNode): the element children in document order
SelectChildren(n) == SelectSeq([i \in 1..Len(doc) |-> i], LAMBDA m : doc[m].parent = n)

RECURSIVE IsDescendant(_, _)
IsDescendant(root, n) ==
    IF n = 0 THEN FALSE
    ELSE doc[n].parent = root \/ IsDescendant(root, doc[n].parent)

\* elementNode.getAttribute(recurse) ?? ''
GetAttribute(n, attr) == IF attr \in DOMAIN doc[n].attrs THEN doc[n].attrs[attr] ELSE <<>>

\* variant: the predicate tests only that the id attribute is present
SelectElementNodeByIdAnyName(elementName, id, name, rootNode) ==
    IF rootNode = NoNode THEN NoNode
    ELSE LET hits == {m \in Nodes : /\ IsDescendant(rootNode, m)
                                    /\ doc[m].tag = elementName
                                    /\ id \in DOMAIN doc[m].attrs}
         IN IF hits = {} THEN NoNode ELSE CHOOSE m \in hits : \A o \in hits : m <= o

\* variant: the search covers the whole document
SelectElementNodeByIdAnywhere(elementName, id, name, rootNode) ==
    IF rootNode = NoNode THEN NoNode
    ELSE LET hits == {m \in Nodes : /\ doc[m].tag = elementName
                                    /\ id \in DOMAIN doc[m].attrs
                                    /\ doc[m].attrs[id] = <<name>>}
         IN IF hits = {} THEN NoNode ELSE CHOOSE m \in hits : \A o \in hits : m <= o

\* xpath.select(`.//${elementName}[@${id}="${name}"]`, rootNode, true)
SelectElementNodeById(elementName, id, name, rootNode) ==
    IF rootNode = NoNode THEN NoNode
    ELSE LET hits == {m \in Nodes : /\ IsDescendant(rootNode, m)
                                    /\ doc[m].tag = elementName
                                    /\ id \in DOMAIN doc[m].attrs
                                    /\ doc[m].attrs[id] = <<name>>}
         IN IF hits = {} THEN NoNode ELSE CHOOSE m \in hits : \A o \in hits : m <= o

GetElementInfo(elementName) ==
    IF elementName \in DOMAIN parseInfo.elements THEN parseInfo.elements[elementName]
    ELSE IF parseInfo.hasDef THEN parseInfo.def
    ELSE EmptyElementInfo

\* ------------------------------------------------------- ramda primitives
\* R.includes(x, list)
Includes(x, list) == \E i \in 1..Len(list) : list[i] = x

\* R.has(prop)(element): attribute members only (see the representation)
Has(prop, element) == prop \in DOMAIN element.attrs

\* R.prop(prop)(element): undefined when the member is absent
Prop(prop, element) == IF Has(prop, element) THEN element.attrs[prop] ELSE Undefined

\* the property key a value becomes: String(undefined) is "undefined"
ToKey(v) == IF v = Undefined THEN <<"undefined">> ELSE v

\* variant: the discards are left in place
DissocNothing(discards, element) == element

\* R.dissoc for each name of discards
Dissoc(discards, element) ==
    [element EXCEPT !.attrs = [k \in (DOMAIN element.attrs) \ discards |-> element.attrs[k]]]

\* variant: the left operand wins on every key both define
MergeAllLeftWins(a, b) ==
    [attrs |-> [k \in (DOMAIN a.attrs) \cup (DOMAIN b.attrs) |->
                    IF k \in DOMAIN a.attrs THEN a.attrs[k] ELSE b.attrs[k]],
     label |-> IF a.label # "" THEN a.label ELSE b.label,
     hasDesc |-> a.hasDesc \/ b.hasDesc,
     desc |-> IF a.hasDesc THEN a.desc ELSE b.desc]

\* variant: the overlay keeps the right operand only
MergeAllKeepsRight(a, b) == b

\* R.mergeAll([a, b]): shallow overlay, b wins on every key both define
MergeAll(a, b) ==
    [attrs |-> [k \in (DOMAIN a.attrs) \cup (DOMAIN b.attrs) |->
                    IF k \in DOMAIN b.attrs THEN b.attrs[k] ELSE a.attrs[k]],
     label |-> IF b.label # "" THEN b.label ELSE a.label,
     hasDesc |-> a.hasDesc \/ b.hasDesc,
     desc |-> IF b.hasDesc THEN b.desc ELSE a.desc]

\* R.concat(x, y) on descendants values: defined on two arrays only, a
\* TypeError when either side is an object produced by indexBy/groupBy
ConcatOk(x, y) == x.shape = "list" /\ y.shape = "list"

\* variant: the operands are concatenated the other way round
ConcatSwapped(x, y) == ListDesc(y.list \o x.list)

Concat(x, y) == ListDesc(x.list \o y.list)

\* R.indexBy(R.prop(id), list): the last element with a key wins
IndexBy(id, list) ==
    LET keys == {ToKey(Prop(id, list[i])) : i \in 1..Len(list)}
        last(k) == CHOOSE i \in 1..Len(list) :
                      /\ ToKey(Prop(id, list[i])) = k
                      /\ \A j \in 1..Len(list) : ToKey(Prop(id, list[j])) = k => j <= i
    IN [EmptyDesc EXCEPT !.shape = "index", !.index = [k \in keys |-> list[last(k)]]]

\* R.groupBy(R.prop(id), list)
GroupBy(id, list) ==
    LET keys == {ToKey(Prop(id, list[i])) : i \in 1..Len(list)}
    IN [EmptyDesc EXCEPT !.shape = "group",
          !.group = [k \in keys |-> SelectSeq(list, LAMBDA e : ToKey(Prop(id, e)) = k)]]

\* the duplicate scan of buildChildren: index of the first element whose
\* identifier was met earlier in the list, 0 when there is none
FirstCollision(id, list) ==
    LET dups == {i \in 1..Len(list) : \E j \in 1..(i - 1) : Prop(id, list[j]) = Prop(id, list[i])}
    IN IF dups = {} THEN 0 ELSE CHOOSE i \in dups : \A j \in dups : i <= j

\* R.find(R.complement(R.has(id)))(children) ?? {}
FindMissing(id, children) ==
    LET miss == {i \in 1..Len(children) : ~Has(id, children[i])}
    IN IF miss = {} THEN EmptyElement
       ELSE children[CHOOSE i \in miss : \A j \in miss : i <= j]

\* ------------------------------------------------------- the spec (ISpec)
\* The converter's spec, as far as coercion reads it.  coercion tells whether
\* spec.coercion is an object; matchers is coercion/attributes/matchers: the
\* keys of the object in insertion order ("object"), no value ("absent") or a
\* value that is not an object ("scalar"); trim is coercion/textNodes/trim;
\* attributesLabel is labels/attributes, "" when the spec has none.
\* A matcher entry carries the value of the string matcher in flag, the
\* value of the primitives matcher in list and, for the collection matcher,
\* assoc/keyType in list and assoc/valueType in values: a single name is the
\* list of that name, <<>> stands for no value.
Matcher(name, flag, list) == [name |-> name, flag |-> flag, list |-> list, values |-> <<>>]

AssocMatcher(keyType, valueType) ==
    [name |-> "collection", flag |-> TRUE, list |-> keyType, values |-> valueType]

MatcherObject(entries) == [kind |-> "object", entries |-> entries]

NoMatchers == [kind |-> "absent", entries |-> <<>>]

ScalarMatchers == [kind |-> "scalar", entries |-> <<>>]

VerbatimSpec == [coercion |-> FALSE, matchers |-> NoMatchers, trim |-> "absent", attributesLabel |-> ""]

\* Specs.fallBack, the defaults fetchSpecOption falls back to
FallBackPrimitives == <<"number", "boolean">>

FallBackMatchers ==
    MatcherObject(<<Matcher("primitives", TRUE, FallBackPrimitives),
                    Matcher("collection", TRUE, <<>>),
                    Matcher("date", TRUE, <<>>),
                    Matcher("symbol", TRUE, <<>>),
                    Matcher("string", TRUE, <<>>)>>)

FallBackTrim == TRUE

SymbolPrefix == <<"$">>

SymbolGlobal == TRUE

CollectionDelim == ","

CollectionOpenHead == <<"!">>

CollectionOpenTail == <<"[">>

CollectionClose == <<"]">>

AssocDelim == "="

AssocKeyType == <<"string">>

AssocValueType == <<"string">>

\* fetchSpecOption('coercion/attributes/matchers'): R.defaultTo(fallBack, own)
FetchMatchers == IF spec.matchers.kind = "absent" THEN FallBackMatchers ELSE spec.matchers

\* fetchSpecOption('coercion/attributes/matchers/<name>'): the own entry when
\* the spec's matchers object has the key, else the fall back entry
FetchMatcher(name) ==
    LET own == spec.matchers.entries
        fb == FallBackMatchers.entries
        pick(es) == es[CHOOSE i \in 1..Len(es) : es[i].name = name]
    IN IF \E i \in 1..Len(own) : own[i].name = name THEN pick(own) ELSE pick(fb)

\* ------------------------------------------------------------ raw values
\* A string is the sequence of its characters; a value carries its type.
Str(s) == [t |-> "string", str |-> s]

Num(n) == [t |-> "number", num |-> n]

Bool(b) == [t |-> "boolean", bool |-> b]

Sym(s, global) == [t |-> "symbol", key |-> s, global |-> global]

Moment(s, valid) == [t |-> "moment", of |-> s, valid |-> valid]

Null == [t |-> "null"]

Coll(type, items) == [t |-> "collection", type |-> type, items |-> items]

Upper == {"T", "R", "U", "E", "F", "A", "L", "S", "M", "P", "O"}

LowerOf(c) ==
    CASE c = "T" -> "t" [] c = "R" -> "r" [] c = "U" -> "u" [] c = "E" -> "e"
      [] c = "F" -> "f" [] c = "A" -> "a" [] c = "L" -> "l" [] c = "S" -> "s"
      [] c = "M" -> "m" [] c = "P" -> "p" [] c = "O" -> "o" [] OTHER -> c

\* R.toLower
ToLower(s) == [i \in 1..Len(s) |-> LowerOf(s[i])]

IsSpace(c) == c = " "

Digits == {"0", "1", "2", "3"}

DigitVal(c) == CASE c = "0" -> 0 [] c = "1" -> 1 [] c = "2" -> 2 [] c = "3" -> 3

RECURSIVE TrimLeft(_)
TrimLeft(s) == IF s # <<>> /\ IsSpace(Head(s)) THEN TrimLeft(Tail(s)) ELSE s

RECURSIVE TrimRight(_)
TrimRight(s) ==
    IF s # <<>> /\ IsSpace(s[Len(s)]) THEN TrimRight(SubSeq(s, 1, Len(s) - 1)) ELSE s

\* String.prototype.trim
Trim(s) == TrimRight(TrimLeft(s))

StartsWith(s, prefix) == Len(prefix) <= Len(s) /\ SubSeq(s, 1, Len(prefix)) = prefix

EndsWith(s, suffix) ==
    Len(suffix) <= Len(s) /\ SubSeq(s, Len(s) - Len(suffix) + 1, Len(s)) = suffix

RECURSIVE DecimalValue(_)
DecimalValue(s) ==
    IF s = <<>> THEN 0 ELSE 10 * DecimalValue(SubSeq(s, 1, Len(s) - 1)) + DigitVal(s[Len(s)])

AllDigits(s) == s # <<>> /\ \A i \in 1..Len(s) : s[i] \in Digits

\* Number(string) on strings of spaces, digits, a sign and letters: white
\* space is stripped, the empty string is 0, a signed run of digits is its
\* value and anything else is NaN
NumberOf(s) ==
    LET t == Trim(s)
    IN IF t = <<>> THEN [nan |-> FALSE, num |-> 0]
       ELSE IF AllDigits(t) THEN [nan |-> FALSE, num |-> DecimalValue(t)]
       ELSE IF Head(t) \in {"-", "+"} /\ AllDigits(Tail(t))
            THEN [nan |-> FALSE,
                  num |-> IF Head(t) = "-" THEN 0 - DecimalValue(Tail(t)) ELSE DecimalValue(Tail(t))]
       ELSE [nan |-> TRUE, num |-> 0]

\* R.split(delim, s) for a one character delimiter
RECURSIVE Split(_, _)
Split(delim, s) ==
    LET hits == {i \in 1..Len(s) : s[i] = delim}
    IN IF hits = {} THEN <<s>>
       ELSE LET i == CHOOSE h \in hits : \A o \in hits : h <= o
            IN <<SubSeq(s, 1, i - 1)>> \o Split(delim, SubSeq(s, i + 1, Len(s)))

\* the digit groups of a string, in order
DigitGroups(s) ==
    LET marked == [i \in 1..Len(s) |-> IF s[i] \in Digits THEN s[i] ELSE "/"]
    IN SelectSeq(Split("/", marked), LAMBDA g : g # <<>>)

\* moment(value, 'YYYY-MM-DD').isValid() in forgiving mode: the digit groups
\* are read as year, month and day; no group at all, a month outside 1..12 or
\* a day outside 1..31 makes the date invalid
MomentIsValid(s) ==
    LET g == DigitGroups(s)
    IN /\ g # <<>>
       /\ Len(g) >= 2 => DecimalValue(g[2]) \in 1..12
       /\ Len(g) >= 3 => DecimalValue(g[3]) \in 1..31

\* ----------------------------------------------------------- transformers
\* An ITransformResult, or a thrown error (ok = FALSE)
TransformResult(value, succeeded) ==
    [ok |-> TRUE, err |-> "", value |-> value, succeeded |-> succeeded]

TransformThrow(err) == [ok |-> FALSE, err |-> err, value |-> Null, succeeded |-> FALSE]

TransformerNames == {"number", "boolean", "primitives", "collection", "date", "symbol", "string"}

TransformNumber(numberValue) ==
    IF numberValue.t = "boolean"
    THEN TransformResult(Num(IF numberValue.bool THEN 1 ELSE 0), TRUE)
    ELSE LET number == NumberOf(numberValue.str)
         IN IF number.nan THEN TransformResult(numberValue, FALSE)
            ELSE TransformResult(Num(number.num), TRUE)

\* variant: only the lower case spellings are recognised
TransformBooleanCaseSensitive(booleanValue) ==
    IF booleanValue.t = "boolean" THEN TransformResult(booleanValue, TRUE)
    ELSE IF booleanValue.str \in {<<"t", "r", "u", "e">>, <<"f", "a", "l", "s", "e">>}
         THEN TransformResult(Bool(booleanValue.str = <<"t", "r", "u", "e">>), TRUE)
         ELSE TransformResult(Bool(FALSE), FALSE)

TransformBoolean(booleanValue) ==
    IF booleanValue.t = "boolean" THEN TransformResult(booleanValue, TRUE)
    ELSE IF booleanValue.t = "string"
    THEN LET lowerBooleanValue == ToLower(booleanValue.str)
         IN IF lowerBooleanValue \in {<<"t", "r", "u", "e">>, <<"f", "a", "l", "s", "e">>}
            THEN TransformResult(Bool(lowerBooleanValue # <<"f", "a", "l", "s", "e">>), TRUE)
            ELSE TransformResult(Bool(FALSE), FALSE)
    ELSE TransformResult(Bool(FALSE), FALSE)

TransformDate(dateValue) ==
    LET valid == dateValue.t = "string" /\ MomentIsValid(dateValue.str)
    IN TransformResult(Moment(dateValue, valid), valid)

TransformSymbol(symbolValue) ==
    TransformResult(Sym(symbolValue.str, SymbolGlobal), StartsWith(symbolValue.str, SymbolPrefix))

\* variant: the string matcher's value is not consulted
TransformStringAlways(stringValue) == TransformResult(stringValue, TRUE)

TransformString(stringValue) ==
    IF ~FetchMatcher("string").flag THEN TransformThrow("SolicitedError:string")
    ELSE TransformResult(stringValue, TRUE)

\* a transformer obtained from getTransformer and called as a plain function,
\* as transformPrimitives does: the transformers that read this.fetchSpecOption
\* fail on the undefined this
PlainCall(name, value) ==
    IF name \notin TransformerNames THEN TransformThrow("InternalError:transformer")
    ELSE IF name = "number" THEN TransformNumber(value)
    ELSE IF name = "boolean" THEN TransformBoolean(value)
    ELSE TransformThrow("TypeError")

\* primitives.some(...): the first success ends the scan
RECURSIVE SomePrimitive(_, _)
SomePrimitive(primitives, value) ==
    IF primitives = <<>> THEN TransformResult(Null, FALSE)
    ELSE LET coercedResult == PlainCall(Head(primitives), value)
         IN IF ~coercedResult.ok \/ coercedResult.succeeded THEN coercedResult
            ELSE SomePrimitive(Tail(primitives), value)

ReservedWords == {<<"p", "r", "i", "m", "i", "t", "i", "v", "e", "s">>,
                  <<"c", "o", "l", "l", "e", "c", "t", "i", "o", "n">>}

TransformPrimitives(primitiveValue) ==
    IF primitiveValue.t # "string" THEN TransformThrow("TypeError")
    ELSE IF ToLower(primitiveValue.str) \in ReservedWords
    THEN TransformThrow("ConfigError:primitives")
    ELSE SomePrimitive(FetchMatcher("primitives").list, primitiveValue)

\* ------------------------------------------------------------ collections
WordChars == {"a", "b", "c", "e", "f", "i", "j", "l", "m", "n", "o", "p", "r", "s", "t", "u",
              "v", "y", "_", "6", "8"} \cup Upper \cup Digits

TypeChars == WordChars \cup {"[", "]"}

\* typeExpr /\<(?<type>[\w\[\]]+)\>/ : the type of the leftmost match, '' when
\* the value has none
ExtractTypeFromCollectionValue(s) ==
    LET close(i) == CHOOSE j \in (i + 1)..Len(s) :
                        /\ s[j] \notin TypeChars
                        /\ \A k \in (i + 1)..(j - 1) : s[k] \in TypeChars
        matches(i) == /\ s[i] = "<"
                      /\ \E j \in (i + 2)..Len(s) :
                            /\ s[j] = ">"
                            /\ \A k \in (i + 1)..(j - 1) : s[k] \in TypeChars
        hits == {i \in 1..Len(s) : matches(i)}
    IN IF hits = {} THEN <<>>
       ELSE LET i == CHOOSE h \in hits : \A o \in hits : h <= o
            IN SubSeq(s, i + 1, close(i) - 1)

\* the list R.includes searches in isUnaryCollection
UnaryCollectionTypes ==
    {<<"[", "]">>,
     <<"i", "n", "t", "8", "a", "r", "r", "a", "y">>,
     <<"u", "i", "n", "t", "8", "a", "r", "r", "a", "y">>,
     <<"u", "i", "n", "t", "8", "c", "l", "a", "m", "p", "e", "d", "a", "r", "r", "a", "y">>,
     <<"i", "n", "t", "1", "6", "a", "r", "r", "a", "y">>,
     <<"i", "n", "t", "1", "6", "a", "r", "r", "a", "y">>,
     <<"i", "n", "t", "3", "2", "a", "r", "r", "a", "y">>,
     <<"u", "i", "n", "t", "3", "2", "a", "r", "r", "a", "y">>,
     <<"f", "l", "o", "a", "t", "3", "2", "a", "r", "r", "a", "y">>,
     <<"f", "l", "o", "a", "t", "6", "4", "a", "r", "r", "a", "y">>,
     <<"s", "e", "t">>}

IsUnaryCollection(definedType) == ToLower(definedType) \in UnaryCollectionTypes

\* transformUnaryCollection: every item goes through transformPrimitives and
\* is kept as it is when that does not succeed
RECURSIVE MapPrimitives(_)
MapPrimitives(items) ==
    IF items = <<>> THEN TransformResult(<<>>, TRUE)
    ELSE LET itemResult == TransformPrimitives(Str(Head(items)))
         IN IF ~itemResult.ok THEN itemResult
            ELSE LET rest == MapPrimitives(Tail(items))
                     item == IF itemResult.succeeded THEN itemResult.value ELSE Str(Head(items))
                 IN IF ~rest.ok THEN rest
                    ELSE TransformResult(<<item>> \o rest.value, TRUE)

TransformUnaryCollection(sourceCollection) ==
    LET mapped == MapPrimitives(sourceCollection)
    IN IF ~mapped.ok THEN mapped ELSE TransformResult(Coll("array", mapped.value), TRUE)

\* coercion/attributes/matchers/collection/assoc/keyType: the own value when
\* the spec gives one, else the fall back
FetchAssocKeyType ==
    IF FetchMatcher("collection").list = <<>> THEN AssocKeyType
    ELSE FetchMatcher("collection").list

\* coercion/attributes/matchers/collection/assoc/valueType, likewise
FetchAssocValueType ==
    IF FetchMatcher("collection").values = <<>> THEN AssocValueType
    ELSE FetchMatcher("collection").values

\* transformAssoc: the first type of the list that succeeds
RECURSIVE TransformAssoc(_, _)
TransformAssoc(assocTypes, assocValue) ==
    IF assocTypes = <<>> THEN TransformResult(Null, FALSE)
    ELSE LET val == Head(assocTypes)
         IN IF val \notin {"number", "boolean", "symbol", "string"}
            THEN TransformThrow("ConfigError:assoc")
            ELSE LET coercedResult ==
                        IF val = "number" THEN TransformNumber(assocValue)
                        ELSE IF val = "boolean" THEN TransformBoolean(assocValue)
                        ELSE IF val = "symbol" THEN TransformSymbol(assocValue)
                        ELSE TransformString(assocValue)
                 IN IF ~coercedResult.ok \/ coercedResult.succeeded THEN coercedResult
                    ELSE TransformAssoc(Tail(assocTypes), assocValue)

\* variant: an entry that does not split in two is skipped
RECURSIVE ReducePairsSkipsMalformed(_, _)
ReducePairsSkipsMalformed(acc, sourceCollection) ==
    IF sourceCollection = <<>> THEN TransformResult(acc, TRUE)
    ELSE LET elements == Split(AssocDelim, Head(sourceCollection))
         IN IF Len(elements) = 2
            THEN LET coercedKeyResult == TransformAssoc(FetchAssocKeyType, Str(elements[1]))
                     coercedValueResult == TransformAssoc(FetchAssocValueType, Str(elements[2]))
                 IN IF ~coercedKeyResult.ok THEN coercedKeyResult
                    ELSE IF ~coercedValueResult.ok THEN coercedValueResult
                    ELSE IF coercedKeyResult.succeeded /\ coercedValueResult.succeeded
                    THEN ReducePairsSkipsMalformed(
                             Append(acc, <<coercedKeyResult.value, coercedValueResult.value>>),
                             Tail(sourceCollection))
                    ELSE ReducePairsSkipsMalformed(acc, Tail(sourceCollection))
            ELSE ReducePairsSkipsMalformed(acc, Tail(sourceCollection))

\* variant: a pair whose key or value is not coerced raises
RECURSIVE ReducePairsRaisesUncoerced(_, _)
ReducePairsRaisesUncoerced(acc, sourceCollection) ==
    IF sourceCollection = <<>> THEN TransformResult(acc, TRUE)
    ELSE LET elements == Split(AssocDelim, Head(sourceCollection))
         IN IF Len(elements) = 2
            THEN LET coercedKeyResult == TransformAssoc(FetchAssocKeyType, Str(elements[1]))
                     coercedValueResult == TransformAssoc(FetchAssocValueType, Str(elements[2]))
                 IN IF ~coercedKeyResult.ok THEN coercedKeyResult
                    ELSE IF ~coercedValueResult.ok THEN coercedValueResult
                    ELSE IF coercedKeyResult.succeeded /\ coercedValueResult.succeeded
                    THEN ReducePairsRaisesUncoerced(
                             Append(acc, <<coercedKeyResult.value, coercedValueResult.value>>),
                             Tail(sourceCollection))
                    ELSE TransformThrow("ParseError:uncoerced")
            ELSE TransformThrow("ParseError:malformed")

\* the R.reduce of transformAssociativeCollection
RECURSIVE ReducePairs(_, _)
ReducePairs(acc, sourceCollection) ==
    IF sourceCollection = <<>> THEN TransformResult(acc, TRUE)
    ELSE LET elements == Split(AssocDelim, Head(sourceCollection))
         IN IF Len(elements) = 2
            THEN LET coercedKeyResult == TransformAssoc(FetchAssocKeyType, Str(elements[1]))
                     coercedValueResult == TransformAssoc(FetchAssocValueType, Str(elements[2]))
                 IN IF ~coercedKeyResult.ok THEN coercedKeyResult
                    ELSE IF ~coercedValueResult.ok THEN coercedValueResult
                    ELSE IF coercedKeyResult.succeeded /\ coercedValueResult.succeeded
                    THEN ReducePairs(
                             Append(acc, <<coercedKeyResult.value, coercedValueResult.value>>),
                             Tail(sourceCollection))
                    ELSE ReducePairs(acc, Tail(sourceCollection))
            ELSE TransformThrow("ParseError:malformed")

\* the cases of createTypedCollection that build a typed array
TypedArrayTypes ==
    {<<"i", "n", "t", "8", "a", "r", "r", "a", "y">>,
     <<"u", "i", "n", "t", "8", "a", "r", "r", "a", "y">>,
     <<"u", "i", "n", "t", "8", "c", "l", "a", "m", "p", "e", "d", "a", "r", "r", "a", "y">>,
     <<"i", "n", "t", "1", "6", "a", "r", "r", "a", "y">>,
     <<"u", "i", "n", "t", "1", "6", "a", "r", "r", "a", "y">>,
     <<"i", "n", "t", "3", "2", "a", "r", "r", "a", "y">>,
     <<"u", "i", "n", "t", "3", "2", "a", "r", "r", "a", "y">>,
     <<"f", "l", "o", "a", "t", "3", "2", "a", "r", "r", "a", "y">>,
     <<"f", "l", "o", "a", "t", "6", "4", "a", "r", "r", "a", "y">>}

\* the number a typed array stores for an element that is a [key, value]
\* pair: the pair converts to NaN, which an integer array stores as 0
NaN == [t |-> "nan"]

PairAsNumber(t) == IF Head(t) = "f" THEN NaN ELSE Num(0)

\* the entries of new Map(pairs) and of R.fromPairs(pairs): one entry per
\* key, at the place of the first pair with the key, with the value of the
\* last one
KeyedEntries(pairs) ==
    LET firsts == SelectSeq([i \in 1..Len(pairs) |-> i],
                            LAMBDA i : \A j \in 1..(i - 1) : pairs[j][1] # pairs[i][1])
        last(k) == CHOOSE i \in 1..Len(pairs) :
                      /\ pairs[i][1] = k
                      /\ \A j \in 1..Len(pairs) : pairs[j][1] = k => j <= i
    IN [n \in 1..Len(firsts) |-> <<pairs[firsts[n]][1], pairs[last(pairs[firsts[n]][1])][2]>>]

\* createTypedCollection(t, pairs), called with the [key, value] pairs of an
\* associative collection; a WeakMap refuses keys that are not objects
CreateTypedCollection(t, pairs) ==
    IF t \in TypedArrayTypes
    THEN TransformResult(Coll(t, [i \in 1..Len(pairs) |-> PairAsNumber(t)]), TRUE)
    ELSE IF t = <<"w", "e", "a", "k", "m", "a", "p">>
    THEN IF pairs = <<>> THEN TransformResult(Coll(t, pairs), TRUE) ELSE TransformThrow("TypeError")
    ELSE IF t = <<"m", "a", "p">> THEN TransformResult(Coll(t, KeyedEntries(pairs)), TRUE)
    ELSE IF t \in {<<"s", "e", "t">>, <<"w", "e", "a", "k", "s", "e", "t">>}
    THEN TransformResult(Coll(t, pairs), TRUE)
    ELSE TransformResult(Coll("array", pairs), TRUE)

TransformAssociativeCollection(collectionType, sourceCollection) ==
    LET transformValue == ReducePairs(<<>>, sourceCollection)
    IN IF ~transformValue.ok THEN transformValue
       ELSE IF ToLower(collectionType) \in {<<"o", "b", "j", "e", "c", "t">>, <<"{", "}">>}
       THEN TransformResult(Coll("object", KeyedEntries(transformValue.value)), TRUE)
       ELSE CreateTypedCollection(ToLower(collectionType), transformValue.value)

TransformCollection(collectionValue) ==
    LET s == collectionValue.str
        collectionType == ExtractTypeFromCollectionValue(s)
        open == CollectionOpenHead \o <<"<">> \o collectionType \o <<">">> \o CollectionOpenTail
    IN IF collectionType = <<>> THEN TransformResult(Null, FALSE)
       ELSE IF StartsWith(s, open) /\ EndsWith(s, CollectionClose)
       THEN LET coreValue == SubSeq(s, Len(open) + 1, Len(s) - Len(CollectionClose))
                arrayElements == Split(CollectionDelim, coreValue)
            IN IF IsUnaryCollection(collectionType)
               THEN TransformUnaryCollection(arrayElements)
               ELSE TransformAssociativeCollection(collectionType, arrayElements)
       ELSE TransformResult(Null, FALSE)

\* ----------------------------------------------------- coerceAttributeValue
\* transform.call(this, subject, rawValue, 'attributes')
Transform(name, value) ==
    CASE name = "number" -> TransformNumber(value)
      [] name = "boolean" -> TransformBoolean(value)
      [] name = "primitives" -> TransformPrimitives(value)
      [] name = "collection" -> TransformCollection(value)
      [] name = "date" -> TransformDate(value)
      [] name = "symbol" -> TransformSymbol(value)
      [] name = "string" -> TransformString(value)

CoerceOk(value, calls) == [ok |-> TRUE, err |-> "", value |-> value, calls |-> calls]

CoerceThrow(err, calls) == [ok |-> FALSE, err |-> err, value |-> Null, calls |-> calls]

\* variant: the scan goes on after a success, the last success wins
RECURSIVE SomeMatcherLastWins(_, _, _, _)
SomeMatcherLastWins(entries, value, resultValue, calls) ==
    IF entries = <<>> THEN CoerceOk(resultValue, calls)
    ELSE LET mt == Head(entries).name
         IN IF mt \notin TransformerNames THEN CoerceThrow("InternalError:transformer", calls)
            ELSE LET r == Transform(mt, value)
                     log == Append(calls, mt)
                 IN IF ~r.ok THEN CoerceThrow(r.err, log)
                    ELSE SomeMatcherLastWins(Tail(entries), value,
                                             IF r.succeeded THEN r.value ELSE resultValue, log)

\* R.keys(matchers).some(...): the matchers in key order, up to the first
\* that succeeds; calls lists the transformers invoked
RECURSIVE SomeMatcher(_, _, _, _)
SomeMatcher(entries, value, resultValue, calls) ==
    IF entries = <<>> THEN CoerceOk(resultValue, calls)
    ELSE LET mt == Head(entries).name
         IN IF mt \notin TransformerNames THEN CoerceThrow("InternalError:transformer", calls)
            ELSE LET r == Transform(mt, value)
                     log == Append(calls, mt)
                 IN IF ~r.ok THEN CoerceThrow(r.err, log)
                    ELSE IF r.succeeded THEN CoerceOk(r.value, log)
                    ELSE SomeMatcher(Tail(entries), value, resultValue, log)

CoerceAttributeValue(value) ==
    LET matchers == FetchMatchers
    IN IF matchers.kind = "object" THEN SomeMatcher(matchers.entries, value, value, <<>>)
       ELSE CoerceThrow("InternalError:matchers", <<>>)

\* -------------------------------------------------------------- the builder
\* the attributes of a node in the order the document writes them
AttributeOrder == <<"name", "inherits", "filter">>

AttributeNodes(n) == SelectSeq(AttributeOrder, LAMBDA k : k \in DOMAIN doc[n].attrs)

\* variant: the attributes are members whatever the spec says
BuildLocalAttributesAsMembers(n) == [EmptyElement EXCEPT !.attrs = doc[n].attrs]

\* buildLocalAttributes(subject, localNode): the attributes as members of
\* the element or, when labels/attributes is set, as a list of one object
\* per attribute stored under that label
BuildLocalAttributes(n) ==
    IF spec.attributesLabel # ""
    THEN [EmptyElement EXCEPT !.attrs =
            spec.attributesLabel :>
                [i \in 1..Len(AttributeNodes(n)) |->
                    AttributeNodes(n)[i] :> doc[n].attrs[AttributeNodes(n)[i]]]]
    ELSE [EmptyElement EXCEPT !.attrs = doc[n].attrs]

\* variant: the flat overlay in every case
DoMergeElementsOverlay(a, b) == Ok(MergeAll(a, b), {})

\* doMergeElements(a, b) of recurseThroughAttribute
DoMergeElements(a, b) ==
    IF a.hasDesc /\ b.hasDesc
    THEN IF ConcatOk(a.desc, b.desc)
         THEN Ok([MergeAll(a, b) EXCEPT !.desc = Concat(a.desc, b.desc)], {})
         ELSE Throw("TypeError", EmptyElement, {})
    ELSE Ok(MergeAll(a, b), {})

\* R.reduce(doMergeElements, acc, els)
RECURSIVE ReduceMerge(_, _)
ReduceMerge(acc, els) ==
    IF els = <<>> THEN Ok(acc, {})
    ELSE LET m == DoMergeElements(acc, Head(els))
         IN IF m.ok THEN ReduceMerge(m.el, Tail(els)) ELSE m

ListOk(els, calls) == [ok |-> TRUE, err |-> "", detail |-> EmptyElement, els |-> els, calls |-> calls]

ListThrow(err, detail, calls) == [ok |-> FALSE, err |-> err, detail |-> detail, els |-> <<>>, calls |-> calls]

RECURSIVE BuildElement(_, _)
RECURSIVE RecurseThroughAttribute(_, _, _)
RECURSIVE BuildInherited(_, _, _)
RECURSIVE BuildChildList(_, _)
RECURSIVE BuildChildren(_, _, _)
RECURSIVE BuildDescendants(_, _, _)

\* buildElement(elementNode, parseInfo, previouslySeen)
BuildElement(n, previouslySeen) ==
    LET call == [node |-> n, seen |-> previouslySeen]
        local == [BuildLocalAttributes(n) EXCEPT !.label = NodeName(n)]
        info == GetElementInfo(NodeName(n))
        r1 == IF info.recurse # ""
              THEN RecurseThroughAttribute(local, n, previouslySeen)
              ELSE Ok(local, {})
    IN IF ~r1.ok THEN [r1 EXCEPT !.calls = @ \cup {call}]
       ELSE LET filtered == Dissoc(info.discards, r1.el)
                r2 == IF HasChildNodes(n)
                      THEN BuildChildren(filtered, n, previouslySeen)
                      ELSE Ok(filtered, {})
            IN [r2 EXCEPT !.calls = @ \cup r1.calls \cup {call}]

\* variant: the list handed to a reference also holds the references
\* resolved before it
RECURSIVE BuildInheritedLeaks(_, _, _)
BuildInheritedLeaks(ats, n, seen) ==
    IF ats = <<>> THEN ListOk(<<>>, {})
    ELSE LET info == GetElementInfo(NodeName(n))
             inheritedElementNode ==
                 SelectElementNodeById(NodeName(n), info.id, Head(ats), doc[n].parent)
         IN IF inheritedElementNode = NoNode
            THEN ListThrow("ConfigError:notfound", EmptyElement, {})
            ELSE LET r == BuildElement(inheritedElementNode, seen)
                 IN IF ~r.ok THEN ListThrow(r.err, r.detail, r.calls)
                    ELSE LET rest == BuildInheritedLeaks(Tail(ats), n, Append(seen, <<Head(ats)>>))
                         IN IF rest.ok
                            THEN ListOk(<<r.el>> \o rest.els, r.calls \cup rest.calls)
                            ELSE [rest EXCEPT !.calls = @ \cup r.calls]

\* the R.map over recurseAttributes: select and build each referenced
\* element in list order; the first failure ends the map
BuildInherited(ats, n, seen) ==
    IF ats = <<>> THEN ListOk(<<>>, {})
    ELSE LET info == GetElementInfo(NodeName(n))
             inheritedElementNode ==
                 SelectElementNodeById(NodeName(n), info.id, Head(ats), doc[n].parent)
         IN IF inheritedElementNode = NoNode
            THEN ListThrow("ConfigError:notfound", EmptyElement, {})
            ELSE LET r == BuildElement(inheritedElementNode, seen)
                 IN IF ~r.ok THEN ListThrow(r.err, r.detail, r.calls)
                    ELSE LET rest == BuildInherited(Tail(ats), n, seen)
                         IN IF rest.ok
                            THEN ListOk(<<r.el>> \o rest.els, r.calls \cup rest.calls)
                            ELSE [rest EXCEPT !.calls = @ \cup r.calls]

\* variant: an identifier met before ends the recursion without an error
RecurseThroughAttributeEndsOnSeen(element, n, previouslySeen) ==
    LET info == GetElementInfo(NodeName(n))
        identifier == IF Has(info.id, element) THEN element.attrs[info.id] ELSE <<>>
    IN IF identifier = <<>> THEN Ok(element, {})
       ELSE IF info.recurse = "" THEN Ok(element, {})
       ELSE IF Includes(identifier, previouslySeen) THEN Ok(element, {})
       ELSE LET seen == Append(previouslySeen, identifier)
                recurseAttributes == GetAttribute(n, info.recurse)
            IN IF recurseAttributes = <<>> THEN Ok(element, {})
               ELSE LET built == BuildInherited(recurseAttributes, n, seen)
                    IN IF ~built.ok THEN Throw(built.err, built.detail, built.calls)
                       ELSE IF Len(recurseAttributes) > 1
                       THEN LET merged == ReduceMerge(EmptyElement, built.els)
                            IN IF ~merged.ok THEN [merged EXCEPT !.calls = built.calls]
                               ELSE Ok(MergeAll(merged.el, element), built.calls)
                       ELSE Ok(MergeAll(built.els[1], element), built.calls)

\* recurseThroughAttribute(subject, element, elementNode, parentNode, parseInfo, previouslySeen)
RecurseThroughAttribute(element, n, previouslySeen) ==
    LET info == GetElementInfo(NodeName(n))
        identifier == IF Has(info.id, element) THEN element.attrs[info.id] ELSE <<>>
    IN IF identifier = <<>> THEN Ok(element, {})
       ELSE IF info.recurse = "" THEN Ok(element, {})
       ELSE IF Includes(identifier, previouslySeen)
            THEN Throw("ConfigError:circular", EmptyElement, {})
       ELSE LET seen == Append(previouslySeen, identifier)
                recurseAttributes == GetAttribute(n, info.recurse)
            IN IF recurseAttributes = <<>> THEN Ok(element, {})
               ELSE IF Len(recurseAttributes) > 1
               THEN LET built == BuildInherited(recurseAttributes, n, seen)
                    IN IF ~built.ok THEN Throw(built.err, built.detail, built.calls)
                       ELSE LET merged == ReduceMerge(EmptyElement, built.els)
                            IN IF ~merged.ok THEN [merged EXCEPT !.calls = built.calls]
                               ELSE Ok(MergeAll(merged.el, element), built.calls)
               ELSE LET built == BuildInherited(recurseAttributes, n, seen)
                    IN IF ~built.ok THEN Throw(built.err, built.detail, built.calls)
                       ELSE Ok(MergeAll(built.els[1], element), built.calls)

\* variant: a child whose build throws is left out of the list
RECURSIVE BuildChildListSkipsFailed(_, _)
BuildChildListSkipsFailed(kids, previouslySeen) ==
    IF kids = <<>> THEN ListOk(<<>>, {})
    ELSE LET r == BuildElement(Head(kids), previouslySeen)
             rest == BuildChildListSkipsFailed(Tail(kids), previouslySeen)
         IN IF ~rest.ok THEN [rest EXCEPT !.calls = @ \cup r.calls]
            ELSE ListOk((IF r.ok THEN <<r.el>> ELSE <<>>) \o rest.els, r.calls \cup rest.calls)

\* the R.reduce of buildChildren that builds every child element in order
BuildChildList(kids, previouslySeen) ==
    IF kids = <<>> THEN ListOk(<<>>, {})
    ELSE LET r == BuildElement(Head(kids), previouslySeen)
         IN IF ~r.ok THEN ListThrow(r.err, r.detail, r.calls)
            ELSE LET rest == BuildChildList(Tail(kids), previouslySeen)
                 IN IF rest.ok
                    THEN ListOk(<<r.el>> \o rest.els, r.calls \cup rest.calls)
                    ELSE [rest EXCEPT !.calls = @ \cup r.calls]

\* variant: the collision scan is run when throwIfCollision is set
ApplyPolicyOnCollisionFlag(element, children, calls) ==
    LET elementInfo == GetElementInfo(element.label)
        descendants == element.desc.list
        hit == FirstCollision(elementInfo.id, descendants)
    IN IF elementInfo.by = "" THEN Ok(element, calls)
       ELSE IF \A i \in 1..Len(children) : Has(elementInfo.id, children[i])
       THEN IF elementInfo.by = "index"
            THEN IF elementInfo.throwIfCollision /\ hit # 0
                 THEN Throw("SolicitedError:collision", descendants[hit], calls)
                 ELSE Ok([element EXCEPT !.desc = IndexBy(elementInfo.id, descendants)], calls)
            ELSE IF elementInfo.by = "group"
            THEN Ok([element EXCEPT !.desc = GroupBy(elementInfo.id, descendants)], calls)
            ELSE Ok(element, calls)
       ELSE IF elementInfo.throwIfMissing
            THEN Throw("SolicitedError:missing", FindMissing(elementInfo.id, children), calls)
            ELSE Ok(element, calls)

\* the descendants policy of buildChildren, applied once the list is merged
ApplyPolicy(element, children, calls) ==
    LET elementInfo == GetElementInfo(element.label)
        descendants == element.desc.list
        hit == FirstCollision(elementInfo.id, descendants)
    IN IF elementInfo.by = "" THEN Ok(element, calls)
       ELSE IF \A i \in 1..Len(children) : Has(elementInfo.id, children[i])
       THEN IF elementInfo.by = "index"
            THEN IF elementInfo.throwIfMissing /\ hit # 0
                 THEN Throw("SolicitedError:collision", descendants[hit], calls)
                 ELSE Ok([element EXCEPT !.desc = IndexBy(elementInfo.id, descendants)], calls)
            ELSE IF elementInfo.by = "group"
            THEN Ok([element EXCEPT !.desc = GroupBy(elementInfo.id, descendants)], calls)
            ELSE Ok(element, calls)
       ELSE IF elementInfo.throwIfMissing
            THEN Throw("SolicitedError:missing", FindMissing(elementInfo.id, children), calls)
            ELSE Ok(element, calls)

\* variant: the children are handed the list with the identifier of their
\* parent appended
BuildDescendantsOwnSeen(element, n, previouslySeen) ==
    LET elements == SelectChildren(n)
    IN IF Len(elements) = 0 THEN Ok(element, {})
       ELSE LET built == BuildChildList(elements, Append(previouslySeen, Prop(GetElementInfo(NodeName(n)).id, element)))
            IN IF ~built.ok THEN Throw(built.err, built.detail, built.calls)
               ELSE IF element.hasDesc
               THEN IF ConcatOk(ListDesc(built.els), element.desc)
                    THEN ApplyPolicy([element EXCEPT !.desc = Concat(ListDesc(built.els), @)],
                                     built.els, built.calls)
                    ELSE Throw("TypeError", EmptyElement, built.calls)
               ELSE ApplyPolicy([element EXCEPT !.hasDesc = TRUE, !.desc = ListDesc(built.els)],
                                built.els, built.calls)

\* buildChildren up to the descendants policy: the child elements are built,
\* merged with the inherited descendants and re-keyed
BuildDescendants(element, n, previouslySeen) ==
    LET elements == SelectChildren(n)
    IN IF Len(elements) = 0 THEN Ok(element, {})
       ELSE LET built == BuildChildList(elements, previouslySeen)
            IN IF ~built.ok THEN Throw(built.err, built.detail, built.calls)
               ELSE IF element.hasDesc
               THEN IF ConcatOk(ListDesc(built.els), element.desc)
                    THEN ApplyPolicy([element EXCEPT !.desc = Concat(ListDesc(built.els), @)],
                                     built.els, built.calls)
                    ELSE Throw("TypeError", EmptyElement, built.calls)
               ELSE ApplyPolicy([element EXCEPT !.hasDesc = TRUE, !.desc = ListDesc(built.els)],
                                built.els, built.calls)

\* composeText(elementNode): the data of every child node that has data, the
\* comments among them, each trimmed when coercion/textNodes/trim is set
ComposeText(n) ==
    LET doTrim == IF spec.trim = "absent" THEN FallBackTrim ELSE spec.trim = "true"
        RECURSIVE walk(_)
        walk(fs) == IF fs = <<>> THEN <<>>
                    ELSE (IF doTrim THEN Trim(Head(fs).data) ELSE Head(fs).data)
                         \o walk(Tail(fs))
    IN walk(doc[n].text)

\* labels/text
TextLabel == "_text"

\* buildChildren(subject, element, elementNode, parseInfo, previouslySeen)
BuildChildren(element, n, previouslySeen) ==
    LET r == BuildDescendants(element, n, previouslySeen)
        elementText == ComposeText(n)
    IN IF ~r.ok \/ elementText = <<>> THEN r
       ELSE [r EXCEPT !.el.attrs =
                [k \in (DOMAIN r.el.attrs) \cup {TextLabel} |->
                    IF k = TextLabel THEN elementText ELSE r.el.attrs[k]]]

\* ------------------------------------------------------------- the inputs
\* attributes of a node: name is "absent", "empty" (name="") or the name
MkAttrs(name, inherits, filter) ==
    LET keys == (IF name = "absent" THEN {} ELSE {"name"})
                \cup (IF inherits = <<>> THEN {} ELSE {"inherits"})
                \cup (IF filter = "" THEN {} ELSE {"filter"})
    IN [k \in keys |-> IF k = "name" THEN (IF name = "empty" THEN <<>> ELSE <<name>>)
                       ELSE IF k = "inherits" THEN inherits
                       ELSE <<filter>>]

\* a document: top level Command elements, each followed by its children
RECURSIVE Flatten(_, _)
Flatten(cmds, base) ==
    IF cmds = <<>> THEN <<>>
    ELSE LET c == Head(cmds)
             me == base + 1
             kids == [i \in 1..Len(c.kids) |->
                        [parent |-> me, tag |-> c.kids[i].tag,
                         attrs |-> MkAttrs(c.kids[i].name, <<>>, ""), text |-> <<>>]]
         IN <<[parent |-> 0, tag |-> "Command", attrs |-> MkAttrs(c.name, c.inherits, c.filter),
               text |-> <<>>]>>
            \o kids \o Flatten(Tail(cmds), me + Len(c.kids))

\* comma separated lists of up to max distinct names
RefLists(S, max) ==
    UNION {{s \in [1..k -> S] : \A i, j \in 1..k : i # j => s[i] # s[j]} : k \in 0..max}

KidLists(K, max) == UNION {[1..k -> K] : k \in 0..max}

Kid(tag, name) == [tag |-> tag, name |-> name]

Cmd(name, inherits, filter, kids) == [name |-> name, inherits |-> inherits, filter |-> filter, kids |-> kids]

CommandInfo(discards, by, throwIfMissing) ==
    [id |-> "name", recurse |-> "inherits", discards |-> discards, by |-> by,
     throwIfMissing |-> throwIfMissing]

\* the parse info of a tag with descendants.throwIfCollision given
CommandInfoWith(discards, by, throwIfMissing, throwIfCollision) ==
    [id |-> "name", recurse |-> "inherits", discards |-> discards, by |-> by,
     throwIfMissing |-> throwIfMissing, throwIfCollision |-> throwIfCollision]

\* inheritance among three childless commands
AttributeInputs ==
    {[cmds |-> <<Cmd(n1, i1, f1, <<>>), Cmd("b", i2, f2, <<>>), Cmd("c", i3, f3, <<>>)>>,
      info |-> CommandInfo(d, "index", FALSE)] :
        n1 \in {"a", "absent", "empty"},
        i1 \in RefLists({"a", "b", "c", MissingName}, MaxRefs),
        f1 \in {"", "fa"},
        i2 \in {<<>>, <<"a">>, <<"c">>, <<MissingName>>, <<"c", "a">>},
        f2 \in {"", "fb"},
        i3 \in {<<>>, <<"a">>, <<"b">>},
        f3 \in {"", "fc"},
        d \in {{"inherits"}, {"inherits", "filter"}}}

\* direct and inherited children under the descendants policies
ChildInputs ==
    {[cmds |-> <<Cmd("a", i1, "", k1), Cmd("b", i2, "", k2), Cmd("c", <<>>, "", k3)>>,
      info |-> CommandInfo({"inherits"}, p[1], p[2])] :
        i1 \in {<<>>, <<"b">>, <<"b", "c">>, <<"c", "b">>, <<"b", MissingName>>},
        k1 \in KidLists({Kid("Arg", "absent"), Kid("Arg", "p"), Kid("Arg", "q")}, MaxChildren),
        i2 \in {<<>>, <<"c">>, <<"a">>},
        k2 \in {<<>>, <<Kid("Arg", "absent")>>, <<Kid("Arg", "p")>>, <<Kid("Command", "a")>>,
                <<Kid("Arg", "absent"), Kid("Arg", "p")>>},
        k3 \in {<<>>, <<Kid("Arg", "absent")>>, <<Kid("Arg", "q")>>},
        p \in {<<"", FALSE>>, <<"index", FALSE>>, <<"index", TRUE>>,
               <<"group", FALSE>>, <<"group", TRUE>>}}

Inputs == AttributeInputs \cup ChildInputs

NoResult == Throw("", EmptyElement, {})

NoCoercion == CoerceThrow("", <<>>)

NoTransform == TransformThrow("")

NoFrame == [node |-> 0, seen |-> <<>>]

\* --------------------------------------------------------- the state machine
Init ==
    /\ \E in \in Inputs :
          /\ doc = Flatten(in.cmds, 0)
          /\ parseInfo = [elements |-> [t \in {"Command"} |-> in.info],
                          hasDef |-> FALSE, def |-> EmptyElementInfo]
    /\ pc = "idle"
    /\ target = 0
    /\ result = NoResult
    /\ spec = VerbatimSpec
    /\ rawValue = Str(<<>>)
    /\ coerced = NoCoercion
    /\ matcherType = ""
    /\ transformed = NoTransform
    /\ frame = NoFrame

\* a caller builds one Command element of the document with the default
\* previouslySeen = []
Build(n) ==
    /\ pc = "idle"
    /\ NodeName(n) = "Command"
    /\ target' = n
    /\ result' = BuildElement(n, <<>>)
    /\ pc' = "done"
    /\ UNCHANGED <<doc, parseInfo, spec, rawValue, coerced, matcherType, transformed, frame>>

Next == \E n \in Nodes : Build(n)

Spec == Init /\ [][Next]_vars

TypeOK ==
    pc \in {"idle", "done", "coerced", "transformed", "calling", "returned", "thrown", "flipped",
            "rebuilt"}

\* ------------------------------------------------------- coercion, inputs
MaxMatchers == 2
MaxItems == 2

\* the matcher entries a spec may list
MatcherEntries ==
    {Matcher(n, TRUE, <<>>) : n \in {"number", "boolean", "date", "symbol", "collection", "bogus"}}
    \cup {Matcher("string", f, <<>>) : f \in BOOLEAN}
    \cup {Matcher("primitives", TRUE, l) :
            l \in {<<"number", "boolean">>, <<"boolean", "number">>, <<"string">>}}
    \cup {Matcher("collection", TRUE, l) : l \in {<<"number">>, <<"bogus">>}}

\* objects of up to max matchers, every key once
MatcherObjects(max) ==
    UNION {{MatcherObject(es) : es \in {e \in [1..k -> MatcherEntries] :
                                   \A i, j \in 1..k : i # j => e[i].name # e[j].name}} :
           k \in 0..max}

CoercionSpecs ==
    {[coercion |-> TRUE, matchers |-> m, trim |-> "absent", attributesLabel |-> ""] :
        m \in MatcherObjects(MaxMatchers) \cup {NoMatchers, ScalarMatchers}}
    \cup {VerbatimSpec}

ScalarStrings ==
    {<<>>, <<"1", "2">>, <<" ", "2", " ">>, <<"-", "1">>,
     <<"t", "r", "u", "e">>, <<"T", "R", "U", "E">>, <<"F", "a", "l", "s", "e">>,
     <<"y", "e", "s">>, <<"t", "r", "u", "e", " ">>, <<"$", "s">>,
     <<"1", "-", "2", "-", "3">>, <<"1", "-", "2", "2", "-", "3">>,
     <<"c", "o", "l", "l", "e", "c", "t", "i", "o", "n">>,
     <<"P", "r", "i", "m", "i", "t", "i", "v", "e", "s">>,
     <<"<", "m", "a", "p", ">">>}

CollectionItems == {<<"a", "=", "1">>, <<"b">>, <<"a", "=", "b", "=", "c">>, <<"2">>}

CollectionTypes ==
    {<<"m", "a", "p">>, <<"O", "b", "j", "e", "c", "t">>, <<"[", "]">>, <<"S", "e", "t">>,
     <<"i", "n", "t", "1", "6", "a", "r", "r", "a", "y">>,
     <<"U", "i", "n", "t", "1", "6", "A", "r", "r", "a", "y">>}

RECURSIVE Join(_, _)
Join(items, delim) ==
    IF items = <<>> THEN <<>>
    ELSE IF Len(items) = 1 THEN items[1]
    ELSE items[1] \o <<delim>> \o Join(Tail(items), delim)

\* collection literals such as !<map>[a=1,b]
CollectionStrings ==
    {<<"!", "<">> \o t \o <<">", "[">> \o Join(items, ",") \o <<"]">> :
        t \in CollectionTypes,
        items \in UNION {[1..k -> CollectionItems] : k \in 0..MaxItems}}

RawStrings == ScalarStrings \cup CollectionStrings

CoerceInit ==
    /\ doc = <<>>
    /\ parseInfo = [elements |-> [t \in {} |-> EmptyElementInfo],
                    hasDef |-> FALSE, def |-> EmptyElementInfo]
    /\ pc = "idle"
    /\ target = 0
    /\ result = NoResult
    /\ spec \in CoercionSpecs
    /\ rawValue \in {Str(s) : s \in RawStrings} \cup {Bool(b) : b \in BOOLEAN}
    /\ coerced = NoCoercion
    /\ matcherType = ""
    /\ transformed = NoTransform
    /\ frame = NoFrame

\* buildLocalAttributes reads an attribute whose value is rawValue and stores
\* it as a member: coerced when the spec has a coercion section, else verbatim
CoerceAttribute ==
    /\ pc = "idle"
    /\ rawValue.t = "string"
    /\ coerced' = IF spec.coercion THEN CoerceAttributeValue(rawValue) ELSE CoerceOk(rawValue, <<>>)
    /\ pc' = "coerced"
    /\ UNCHANGED <<doc, parseInfo, target, result, spec, rawValue, matcherType, transformed, frame>>

\* a caller takes the transformer for mt from getTransformer and applies it to
\* rawValue in the attributes context; only the boolean transformer is handed
\* a value that is already a boolean
ApplyTransformer(mt) ==
    /\ pc = "idle"
    /\ spec.coercion
    /\ rawValue.t = "boolean" => mt = "boolean"
    /\ matcherType' = mt
    /\ transformed' = Transform(mt, rawValue)
    /\ pc' = "transformed"
    /\ UNCHANGED <<doc, parseInfo, target, result, spec, rawValue, coerced, frame>>

CoerceNext == CoerceAttribute \/ \E mt \in TransformerNames : ApplyTransformer(mt)

CoerceSpec == CoerceInit /\ [][CoerceNext]_vars

\* ------------------------------------------------- the recursion, call by call
\* One behaviour follows one chain of nested buildElement calls: frame is the
\* call in progress, buildElement(frame.node, parseInfo, frame.seen), and a
\* step moves to one of the calls it makes.  A call that makes no further
\* call returns; a call that throws ends the chain.
FrameInfo == GetElementInfo(NodeName(frame.node))

\* element[id] ?? '' of recurseThroughAttribute
FrameIdentifier ==
    IF FrameInfo.id \in DOMAIN doc[frame.node].attrs THEN doc[frame.node].attrs[FrameInfo.id]
    ELSE <<>>

\* the call runs the reference resolution of recurseThroughAttribute
Resolves == FrameInfo.recurse # "" /\ FrameIdentifier # <<>>

\* variant: the identifier is not recorded
NextSeenForgets(identifier, previouslySeen) == previouslySeen

\* previouslySeen = R.append(identifier, previouslySeen)
NextSeen(identifier, previouslySeen) == Append(previouslySeen, identifier)

FrameReferences == IF Resolves THEN GetAttribute(frame.node, FrameInfo.recurse) ELSE <<>>

FrameReferenced(i) ==
    SelectElementNodeById(NodeName(frame.node), FrameInfo.id, FrameReferences[i],
                          doc[frame.node].parent)

MaxNodes == 3

\* the parents that keep a sequence of nodes in document order: node i is a
\* child of the scope, of node i - 1 or of an ancestor of node i - 1
RECURSIVE IsAncestorIn(_, _, _)
IsAncestorIn(parents, a, n) ==
    IF n = 0 THEN FALSE ELSE parents[n] = a \/ IsAncestorIn(parents, a, parents[n])

DocumentOrders(k) ==
    {ps \in [1..k -> 0..(k - 1)] :
        \A i \in 1..k : \/ ps[i] = 0
                        \/ ps[i] = i - 1
                        \/ (i > 1 /\ IsAncestorIn(ps, ps[i], i - 1))}

\* trees of Command elements, nested at will, that name and inherit each other
CommandTrees ==
    {[i \in 1..MaxNodes |-> [parent |-> ps[i], tag |-> "Command",
                             attrs |-> MkAttrs(ns[i], is[i], ""), text |-> <<>>]] :
        ps \in DocumentOrders(MaxNodes),
        ns \in [1..MaxNodes -> {"a", "b"}],
        is \in [1..MaxNodes -> {<<>>, <<"a">>, <<"b", "a">>}]}

RecursionInit ==
    /\ doc \in CommandTrees
    /\ parseInfo = [elements |-> [t \in {"Command"} |-> CommandInfo({"inherits"}, "", FALSE)],
                    hasDef |-> FALSE, def |-> EmptyElementInfo]
    /\ pc = "idle"
    /\ target = 0
    /\ result = NoResult
    /\ spec = VerbatimSpec
    /\ rawValue = Str(<<>>)
    /\ coerced = NoCoercion
    /\ matcherType = ""
    /\ transformed = NoTransform
    /\ frame = NoFrame

\* the caller's buildElement(elementNode, parseInfo) with previouslySeen = []
Enter(n) ==
    /\ pc = "idle"
    /\ NodeName(n) = "Command"
    /\ target' = n
    /\ frame' = [node |-> n, seen |-> <<>>]
    /\ pc' = "calling"
    /\ UNCHANGED <<doc, parseInfo, result, spec, rawValue, coerced, matcherType, transformed>>

\* the identifier has been seen: the circular reference error
DetectCycle ==
    /\ pc = "calling"
    /\ Resolves
    /\ Includes(FrameIdentifier, frame.seen)
    /\ pc' = "thrown"
    /\ UNCHANGED <<doc, parseInfo, target, result, spec, rawValue, coerced, matcherType,
                   transformed, frame>>

\* a reference that selects no element: the missing element error
NotFound(i) ==
    /\ pc = "calling"
    /\ Resolves
    /\ ~Includes(FrameIdentifier, frame.seen)
    /\ i \in 1..Len(FrameReferences)
    /\ FrameReferenced(i) = NoNode
    /\ pc' = "thrown"
    /\ UNCHANGED <<doc, parseInfo, target, result, spec, rawValue, coerced, matcherType,
                   transformed, frame>>

\* the nested buildElement for the i-th reference, with the extended list
RecurseInto(i) ==
    /\ pc = "calling"
    /\ Resolves
    /\ ~Includes(FrameIdentifier, frame.seen)
    /\ i \in 1..Len(FrameReferences)
    /\ FrameReferenced(i) # NoNode
    /\ frame' = [node |-> FrameReferenced(i), seen |-> NextSeen(FrameIdentifier, frame.seen)]
    /\ UNCHANGED <<doc, parseInfo, pc, target, result, spec, rawValue, coerced, matcherType,
                   transformed>>

\* the nested buildElement of buildChildren for a child element, with the
\* list the call itself received
DescendInto(c) ==
    /\ pc = "calling"
    /\ ~(Resolves /\ Includes(FrameIdentifier, frame.seen))
    /\ doc[c].parent = frame.node
    /\ frame' = [node |-> c, seen |-> frame.seen]
    /\ UNCHANGED <<doc, parseInfo, pc, target, result, spec, rawValue, coerced, matcherType,
                   transformed>>

\* a call that makes no nested call returns its element
ReturnElement ==
    /\ pc = "calling"
    /\ ~(Resolves /\ Includes(FrameIdentifier, frame.seen))
    /\ FrameReferences = <<>>
    /\ ~HasChildNodes(frame.node)
    /\ pc' = "returned"
    /\ UNCHANGED <<doc, parseInfo, target, result, spec, rawValue, coerced, matcherType,
                   transformed, frame>>

RecursionNext ==
    \/ \E n \in Nodes : Enter(n)
    \/ DetectCycle
    \/ \E i \in 1..MaxRefs : NotFound(i)
    \/ \E i \in 1..MaxRefs : RecurseInto(i)
    \/ \E c \in Nodes : DescendInto(c)
    \/ ReturnElement

\* the call stack makes progress: a call in progress makes its next call,
\* returns or throws
RecursionSpec == RecursionInit /\ [][RecursionNext]_vars /\ WF_vars(RecursionNext)

\* ------------------------------------------- associative collections, inputs
\* the key and value types a spec may configure; <<>> leaves the fall back
KeyTypes ==
    {<<>>, <<"number">>, <<"bogus">>, <<"string", "bogus">>, <<"number", "bogus">>}

ValueTypes == {<<>>, <<"number">>, <<"bogus">>, <<"number", "string">>}

AssocSpecs ==
    {[coercion |-> TRUE, matchers |-> MatcherObject(<<AssocMatcher(k, v)>>), trim |-> "absent", attributesLabel |-> ""] :
        k \in KeyTypes, v \in ValueTypes}

AssocItems == CollectionItems \cup {<<"1", "=", "b">>}

AssocTypes == {<<"m", "a", "p">>, <<"O", "b", "j", "e", "c", "t">>, <<"l", "i", "s", "t">>}

\* literals such as !<map>[a=1,1=b]
AssocStrings ==
    {<<"!", "<">> \o t \o <<">", "[">> \o Join(items, ",") \o <<"]">> :
        t \in AssocTypes,
        items \in UNION {[1..k -> AssocItems] : k \in 0..MaxItems}}

AssocInit ==
    /\ doc = <<>>
    /\ parseInfo = [elements |-> [t \in {} |-> EmptyElementInfo],
                    hasDef |-> FALSE, def |-> EmptyElementInfo]
    /\ pc = "idle"
    /\ target = 0
    /\ result = NoResult
    /\ spec \in AssocSpecs
    /\ rawValue \in {Str(s) : s \in AssocStrings}
    /\ coerced = NoCoercion
    /\ matcherType = ""
    /\ transformed = NoTransform
    /\ frame = NoFrame

AssocSpec == AssocInit /\ [][CoerceNext]_vars

\* ------------------------------------------------- labelled attributes, inputs
\* the labels a spec may give the attribute list: the usual one and one that
\* is also the name of the identifier attribute
AttributeLabels == {"_attributes", "name"}

LabelInit ==
    /\ \E in \in AttributeInputs :
          /\ doc = Flatten(in.cmds, 0)
          /\ parseInfo = [elements |-> [t \in {"Command"} |-> in.info],
                          hasDef |-> FALSE, def |-> EmptyElementInfo]
    /\ pc = "idle"
    /\ target = 0
    /\ result = NoResult
    /\ \E l \in AttributeLabels : spec = [VerbatimSpec EXCEPT !.attributesLabel = l]
    /\ rawValue = Str(<<>>)
    /\ coerced = NoCoercion
    /\ matcherType = ""
    /\ transformed = NoTransform
    /\ frame = NoFrame

LabelSpec == LabelInit /\ [][Next]_vars

\* ------------------------------------------------- throwIfCollision, inputs
\* the documents of ChildInputs under parse infos that give throwIfCollision
CollisionInit ==
    /\ \E in \in ChildInputs, flag \in BOOLEAN :
          /\ doc = Flatten(in.cmds, 0)
          /\ parseInfo = [elements |-> [t \in {"Command"} |->
                              CommandInfoWith(in.info.discards, in.info.by,
                                              in.info.throwIfMissing, flag)],
                          hasDef |-> FALSE, def |-> EmptyElementInfo]
    /\ pc = "idle"
    /\ target = 0
    /\ result = NoResult
    /\ spec = VerbatimSpec
    /\ rawValue = Str(<<>>)
    /\ coerced = NoCoercion
    /\ matcherType = ""
    /\ transformed = NoTransform
    /\ frame = NoFrame

\* the caller takes a parse info that differs from the one used in
\* descendants.throwIfCollision only
OtherParseInfo ==
    /\ pc = "done"
    /\ parseInfo' = [parseInfo EXCEPT !.elements["Command"].throwIfCollision = ~@]
    /\ pc' = "flipped"
    /\ UNCHANGED <<doc, target, result, spec, rawValue, coerced, matcherType, transformed,
                   frame>>

\* and builds the same element again with it
BuildAgain ==
    /\ pc = "flipped"
    /\ result' = BuildElement(target, <<>>)
    /\ pc' = "rebuilt"
    /\ UNCHANGED <<doc, parseInfo, target, spec, rawValue, coerced, matcherType, transformed,
                   frame>>

CollisionNext == (\E n \in Nodes : Build(n)) \/ OtherParseInfo \/ BuildAgain

CollisionSpec == CollisionInit /\ [][CollisionNext]_vars

\* ---------------------------------------------------------- text, inputs
MaxFragments == 2

\* child nodes that carry data: text, CDATA sections and comments
Fragment(kind, data) == [kind |-> kind, data |-> data]

Fragments ==
    {Fragment("text", <<"h", "i">>), Fragment("text", <<" ">>), Fragment("text", <<" ", "x", " ">>),
     Fragment("cdata", <<"c", " ">>), Fragment("comment", <<"n">>)}

FragmentLists == UNION {[1..k -> Fragments] : k \in 0..MaxFragments}

\* two commands with text, the first one inheriting from the second or not,
\* each with or without a child element
TextDocuments ==
    {<<[parent |-> 0, tag |-> "Command", attrs |-> MkAttrs("a", i1, ""), text |-> t1]>>
        \o kid
        \o <<[parent |-> 0, tag |-> "Command", attrs |-> MkAttrs("b", <<>>, "fb"), text |-> t2]>>
        \o (IF kid2 THEN <<[parent |-> Len(kid) + 2, tag |-> "Arg",
                            attrs |-> MkAttrs("q", <<>>, ""), text |-> <<>>]>>
            ELSE <<>>) :
        i1 \in {<<>>, <<"b">>},
        t1 \in FragmentLists,
        t2 \in FragmentLists,
        kid \in {<<>>, <<[parent |-> 1, tag |-> "Arg", attrs |-> MkAttrs("p", <<>>, ""),
                         text |-> <<Fragment("text", <<"h", "i">>)>>]>>},
        kid2 \in BOOLEAN}

TextInit ==
    /\ doc \in TextDocuments
    /\ parseInfo = [elements |-> [t \in {"Command"} |-> CommandInfo({"inherits"}, "", FALSE)],
                    hasDef |-> FALSE, def |-> EmptyElementInfo]
    /\ pc = "idle"
    /\ target = 0
    /\ result = NoResult
    /\ \E trim \in {"absent", "true", "false"} : spec = [VerbatimSpec EXCEPT !.trim = trim]
    /\ rawValue = Str(<<>>)
    /\ coerced = NoCoercion
    /\ matcherType = ""
    /\ transformed = NoTransform
    /\ frame = NoFrame

TextSpec == TextInit /\ [][Next]_vars

\* ----------------------------------------------------- vocabulary of claims
AttrNames == {"name", "inherits", "filter"}

Done == pc = "done"

Returned == Done /\ result.ok

TargetInfo == GetElementInfo(NodeName(target))

\* the identifier and the reference list as written on a node
Identifier(n) == GetAttribute(n, GetElementInfo(NodeName(n)).id)

References(n) == GetAttribute(n, GetElementInfo(NodeName(n)).recurse)

Referenced(n, i) ==
    SelectElementNodeById(NodeName(n), GetElementInfo(NodeName(n)).id, References(n)[i], doc[n].parent)

\* the built result of the i-th reference of the element being built by the caller
InheritedResult(n, i) == BuildElement(Referenced(n, i), <<Identifier(n)>>)

\* the references of n that select an element whose build returns an element defining k
Definers(n, k) ==
    {i \in 1..Len(References(n)) :
        /\ Referenced(n, i) # NoNode
        /\ InheritedResult(n, i).ok
        /\ k \in DOMAIN InheritedResult(n, i).el.attrs}

Highest(S) == CHOOSE i \in S : \A j \in S : j <= i

\* k has, in the built target, the value precedence gives it: the local
\* value, else the value of the last listed reference that defines k
PrecedenceHolds(k) ==
    LET own == doc[target].attrs
        got == result.el.attrs
    IN IF k \in DOMAIN own THEN k \in DOMAIN got /\ got[k] = own[k]
       ELSE IF Definers(target, k) # {}
            THEN /\ k \in DOMAIN got
                 /\ got[k] = InheritedResult(target, Highest(Definers(target, k))).el.attrs[k]
            ELSE k \notin DOMAIN got

\* C1 (as claimed): an element listing N>1 references has, for every
\* attribute key, its own value if it defines the key, else the value of the
\* highest-indexed reference whose built result defines it.
C1_AsClaimed ==
    (Returned /\ Len(References(target)) > 1) => \A k \in AttrNames : PrecedenceHolds(k)

\* C1 (amended): the same precedence, for an element that has a non-empty
\* identifier and for every attribute key that is not in the discards.
C1_MultiReferencePrecedence ==
    (Returned /\ Len(References(target)) > 1 /\ Identifier(target) # <<>>)
        => \A k \in AttrNames \ TargetInfo.discards : PrecedenceHolds(k)

\* C1 witness: two references that both define filter with different values,
\* the later listed one survives in an element without a local filter.
C1_Witness ==
    /\ Returned
    /\ Len(References(target)) = 2
    /\ Identifier(target) # <<>>
    /\ "filter" \notin TargetInfo.discards
    /\ "filter" \notin DOMAIN doc[target].attrs
    /\ Definers(target, "filter") = {1, 2}
    /\ InheritedResult(target, 1).el.attrs["filter"] # InheritedResult(target, 2).el.attrs["filter"]
    /\ result.el.attrs["filter"] = InheritedResult(target, 2).el.attrs["filter"]

\* ------------------------------------------------------------------- C2
\* the document has an element of n's tag, under n's parent, named at
NameExists(n, at) ==
    \E m \in Nodes : /\ IsDescendant(doc[n].parent, m)
                     /\ doc[m].tag = doc[n].tag
                     /\ "name" \in DOMAIN doc[m].attrs
                     /\ doc[m].attrs["name"] = <<at>>

\* the first element named at, as the document has it
Named(n, at) ==
    CHOOSE m \in Nodes : /\ IsDescendant(doc[n].parent, m)
                         /\ doc[m].tag = doc[n].tag
                         /\ "name" \in DOMAIN doc[m].attrs
                         /\ doc[m].attrs["name"] = <<at>>
                         /\ \A o \in Nodes : (/\ IsDescendant(doc[n].parent, o)
                                              /\ doc[o].tag = doc[n].tag
                                              /\ "name" \in DOMAIN doc[o].attrs
                                              /\ doc[o].attrs["name"] = <<at>>) => m <= o

Inherits(n) == IF "inherits" \in DOMAIN doc[n].attrs THEN doc[n].attrs["inherits"] ELSE <<>>

\* the levels of the chain that starts at n: n, the element its single
\* reference names, and so on while a level has exactly one reference
RECURSIVE Chain(_, _)
Chain(n, visited) ==
    IF /\ Len(Inherits(n)) = 1
       /\ NameExists(n, Inherits(n)[1])
       /\ Named(n, Inherits(n)[1]) \notin visited \cup {n}
    THEN <<n>> \o Chain(Named(n, Inherits(n)[1]), visited \cup {n})
    ELSE <<n>>

\* a single-reference chain of at least two levels that ends at a base
\* without references
IsChain(n) ==
    LET c == Chain(n, {})
    IN Len(c) >= 2 /\ Inherits(c[Len(c)]) = <<>>

\* k, defined on some level of the chain, has in the built leaf the value of
\* the level nearest to the leaf
NearestWins(k) ==
    LET c == Chain(target, {})
        levels == {i \in 1..Len(c) : k \in DOMAIN doc[c[i]].attrs}
        nearest == CHOOSE i \in levels : \A j \in levels : i <= j
    IN levels # {} =>
          /\ k \in DOMAIN result.el.attrs
          /\ result.el.attrs[k] = doc[c[nearest]].attrs[k]

\* C2 (as claimed): the built leaf of a single-reference chain carries every
\* non-discarded attribute of the chain, the nearest level winning.
C2_AsClaimed ==
    (Returned /\ IsChain(target)) => \A k \in AttrNames \ TargetInfo.discards : NearestWins(k)

\* C2 (amended): the same, for a leaf that has a non-empty identifier.
C2_ChainNearestWins ==
    (Returned /\ IsChain(target) /\ Identifier(target) # <<>>)
        => \A k \in AttrNames \ TargetInfo.discards : NearestWins(k)

\* C2 witness: a chain of three levels, filter defined on the middle level and
\* on the base only; the built leaf has the middle level's value.
C2_Witness ==
    /\ Returned
    /\ IsChain(target)
    /\ Identifier(target) # <<>>
    /\ Len(Chain(target, {})) = 3
    /\ "filter" \notin TargetInfo.discards
    /\ "filter" \notin DOMAIN doc[target].attrs
    /\ "filter" \in DOMAIN doc[Chain(target, {})[2]].attrs
    /\ "filter" \in DOMAIN doc[Chain(target, {})[3]].attrs
    /\ result.el.attrs["filter"] = doc[Chain(target, {})[2]].attrs["filter"]

\* ------------------------------------------------------------------- C3
\* the elements the references of n name
Edges(n) == {Named(n, Inherits(n)[i]) : i \in {j \in 1..Len(Inherits(n)) : NameExists(n, Inherits(n)[j])}}

RECURSIVE Closure(_, _)
Closure(frontier, acc) ==
    IF frontier \subseteq acc THEN acc
    ELSE Closure(UNION {Edges(m) : m \in frontier \ acc}, acc \cup frontier)

\* the elements reached from n by following one or more references
ReachableFrom(n) == Closure(Edges(n), {})

CycleReachable(n) == \E m \in {n} \cup ReachableFrom(n) : m \in ReachableFrom(m)

\* some element reached from n (or n) lists a reference that names no element
MissingReachable(n) ==
    \E m \in {n} \cup ReachableFrom(n) :
        \E i \in 1..Len(Inherits(m)) : ~NameExists(m, Inherits(m)[i])

ChildrenReachable(n) == \E m \in ReachableFrom(n) : HasChildNodes(m)

MissingReference(n) == \E i \in 1..Len(Inherits(n)) : ~NameExists(n, Inherits(n)[i])

FirstMissing(n) ==
    CHOOSE i \in 1..Len(Inherits(n)) :
        /\ ~NameExists(n, Inherits(n)[i])
        /\ \A j \in 1..(i - 1) : NameExists(n, Inherits(n)[j])

IsConfigError(err) == err \in {"ConfigError:circular", "ConfigError:notfound"}

LocalElement(n) == [BuildLocalAttributes(n) EXCEPT !.label = NodeName(n)]

\* the three cases in which resolution is described as a no-op
NoOpCase(n) ==
    \/ Identifier(n) = <<>>
    \/ GetElementInfo(NodeName(n)).recurse = ""
    \/ References(n) = <<>>

\* C5 (as claimed): in every call made during a build, inheritance resolution
\* of an element without identifier, without configured recurse attribute or
\* without a value for it returns the element unchanged and raises nothing,
\* whatever the previously-seen list of the call holds.
C5_AsClaimed ==
    Done => \A c \in result.calls :
                NoOpCase(c.node)
                    => RecurseThroughAttribute(LocalElement(c.node), c.node, c.seen)
                          = Ok(LocalElement(c.node), {})

DirectChildren == BuildChildList(SelectChildren(target), <<>>)

\* the references of the target whose built result carries descendants
WithDescendants ==
    {i \in 1..Len(Inherits(target)) :
        /\ NameExists(target, Inherits(target)[i])
        /\ InheritedResult(target, i).ok
        /\ InheritedResult(target, i).el.hasDesc}

\* the target has built children of its own and inherits descendants
DirectAndInherited ==
    /\ Returned
    /\ Identifier(target) # <<>>
    /\ SelectChildren(target) # <<>>
    /\ WithDescendants # {}

\* number of descendants a descendants value holds
RECURSIVE SumLen(_, _)
SumLen(f, keys) ==
    IF keys = {} THEN 0
    ELSE LET k == CHOOSE x \in keys : TRUE IN Len(f[k]) + SumLen(f, keys \ {k})

Count(desc) ==
    IF desc.shape = "list" THEN Len(desc.list)
    ELSE IF desc.shape = "index" THEN Cardinality(DOMAIN desc.index)
    ELSE SumLen(desc.group, DOMAIN desc.group)

RECURSIVE InheritedCount(_)
InheritedCount(i) ==
    IF i = 0 THEN 0
    ELSE (IF i \in WithDescendants THEN Count(InheritedResult(target, i).el.desc) ELSE 0)
         + InheritedCount(i - 1)

\* C7 (as claimed): an element with built children and inherited descendants
\* holds, when buildElement returns, as many descendants as its contributors
\* together: no descendant is dropped or overwritten.
C7_AsClaimed ==
    DirectAndInherited
        => /\ result.el.hasDesc
           /\ Count(result.el.desc) = Len(DirectChildren.els) + InheritedCount(Len(Inherits(target)))

\* the inherited descendants in inherited order, when every one is a list
RECURSIVE InheritedList(_)
InheritedList(i) ==
    IF i = 0 THEN <<>>
    ELSE InheritedList(i - 1)
         \o (IF i \in WithDescendants THEN InheritedResult(target, i).el.desc.list ELSE <<>>)

\* C8: when an element has built children and an inherited descendants list,
\* its descendants list is the built children in document order followed by
\* the inherited descendants, those of an earlier reference first.
C8_ChildrenBeforeInherited ==
    (DirectAndInherited /\ result.el.desc.shape = "list")
        => result.el.desc.list = DirectChildren.els \o InheritedList(Len(Inherits(target)))

\* C8 witness: two references that each bring a descendant, one built child;
\* the list has the child first, then the first reference's descendant.
C8_Witness ==
    /\ DirectAndInherited
    /\ result.el.desc.shape = "list"
    /\ WithDescendants = {1, 2}
    /\ Len(result.el.desc.list) = 3
    /\ result.el.desc.list[1] = DirectChildren.els[1]
    /\ result.el.desc.list[2] = InheritedResult(target, 1).el.desc.list[1]
    /\ result.el.desc.list[3] = InheritedResult(target, 2).el.desc.list[1]
    /\ result.el.desc.list[2] # result.el.desc.list[3]
    /\ result.el.desc.list[1] # result.el.desc.list[2]

\* ------------------------------------------------------------ C9 and C10
\* buildChildren is reached for the target and every child of it is built
ChildrenBuilt ==
    /\ Done
    /\ SelectChildren(target) # <<>>
    /\ RecurseThroughAttribute(LocalElement(target), target, <<>>).ok
    /\ DirectChildren.ok

\* the descendants the target inherits, whatever shape they were given
InheritedItems ==
    IF Identifier(target) = <<>> THEN {}
    ELSE UNION {LET d == InheritedResult(target, i).el.desc
                IN {d.list[j] : j \in 1..Len(d.list)}
                   \cup {d.index[k] : k \in DOMAIN d.index}
                   \cup UNION {{d.group[k][j] : j \in 1..Len(d.group[k])} : k \in DOMAIN d.group}
                : i \in WithDescendants}

AllHaveIdentifier == \A i \in 1..Len(DirectChildren.els) : Has(TargetInfo.id, DirectChildren.els[i])

\* two descendants of the target, built or inherited, carry the same identifier
SharedIdentifier(v) ==
    \/ \E i, j \in 1..Len(DirectChildren.els) :
          i # j /\ Prop(TargetInfo.id, DirectChildren.els[i]) = v
                /\ Prop(TargetInfo.id, DirectChildren.els[j]) = v
    \/ \E i \in 1..Len(DirectChildren.els) : \E e \in InheritedItems :
          Prop(TargetInfo.id, DirectChildren.els[i]) = v /\ Prop(TargetInfo.id, e) = v

Identifiers == {<<"p">>, <<"q">>, <<"a">>}

\* the last descendant carrying v, in the order built children, inherited ones
LastCarrying(v) ==
    IF \E e \in InheritedItems : Prop(TargetInfo.id, e) = v
    THEN {e \in InheritedItems : Prop(TargetInfo.id, e) = v}
    ELSE {DirectChildren.els[CHOOSE i \in 1..Len(DirectChildren.els) :
              /\ Prop(TargetInfo.id, DirectChildren.els[i]) = v
              /\ \A j \in 1..Len(DirectChildren.els) :
                    Prop(TargetInfo.id, DirectChildren.els[j]) = v => j <= i]}

\* C9 (as claimed, every built child carrying the identifier): under by:
\* index, two descendants with the same identifier raise the solicited
\* collision error when throwIfMissing is set; otherwise the build succeeds
\* and the mapping holds the last descendant carrying that identifier.
C9_AsClaimed ==
    \A v \in Identifiers :
        (ChildrenBuilt /\ TargetInfo.by = "index" /\ AllHaveIdentifier /\ SharedIdentifier(v))
            => IF TargetInfo.throwIfMissing
               THEN ~result.ok /\ result.err = "SolicitedError:collision"
               ELSE /\ result.ok
                    /\ result.el.desc.shape = "index"
                    /\ v \in DOMAIN result.el.desc.index
                    /\ result.el.desc.index[v] \in LastCarrying(v)

\* C10 (as claimed): under a descendants policy, a built child without the
\* identifier attribute raises the solicited error naming the first such
\* child when throwIfMissing is set; otherwise nothing is re-keyed and the
\* descendants stay an ordered list.
C10_AsClaimed ==
    (ChildrenBuilt /\ TargetInfo.by # "" /\ ~AllHaveIdentifier)
        => IF TargetInfo.throwIfMissing
           THEN /\ ~result.ok
                /\ result.err = "SolicitedError:missing"
                /\ result.detail = FindMissing(TargetInfo.id, DirectChildren.els)
           ELSE /\ result.ok
                /\ result.el.hasDesc
                /\ result.el.desc.shape = "list"

\* ------------------------------------------------------------------- C11
Coerced == pc = "coerced" /\ spec.coercion /\ FetchMatchers.kind = "object"

\* what the i-th configured matcher reports for the raw value, on its own
Reports(i) ==
    LET mt == FetchMatchers.entries[i].name
    IN IF mt \in TransformerNames THEN Transform(mt, rawValue)
       ELSE TransformThrow("InternalError:transformer")

Fails(i) == Reports(i).ok /\ ~Reports(i).succeeded

\* the matchers that report a success after every earlier one reported a failure
FirstSuccess ==
    {i \in 1..Len(FetchMatchers.entries) :
        /\ Reports(i).ok /\ Reports(i).succeeded
        /\ \A j \in 1..(i - 1) : Fails(j)}

MatcherNames(k) == [i \in 1..k |-> FetchMatchers.entries[i].name]

\* C11: coerceAttributeValue invokes the configured matchers in their order
\* and returns the value of the first one that reports succeeded = true,
\* invoking none after it; when every matcher reports succeeded = false
\* without raising, it returns the raw value unmodified.
C11_FirstSuccessWins ==
    Coerced =>
        /\ \A i \in FirstSuccess :
              /\ coerced.ok
              /\ coerced.value = Reports(i).value
              /\ coerced.calls = MatcherNames(i)
        /\ (\A i \in 1..Len(FetchMatchers.entries) : Fails(i)) =>
              /\ coerced.ok
              /\ coerced.value = rawValue
              /\ coerced.calls = MatcherNames(Len(FetchMatchers.entries))

\* C11 witness: with the fall back matchers the value $s fails primitives,
\* collection and date, becomes a symbol, and string is never invoked.
C11_Witness ==
    /\ Coerced
    /\ spec.matchers.kind = "absent"
    /\ FirstSuccess = {4}
    /\ coerced.calls = <<"primitives", "collection", "date", "symbol">>
    /\ coerced.value.t = "symbol"

\* ------------------------------------------------------------------- C12
Transformed(mt) == pc = "transformed" /\ matcherType = mt

\* the spec's own matchers give the string matcher the value false
StringDisallowed ==
    \E i \in 1..Len(spec.matchers.entries) :
        spec.matchers.entries[i].name = "string" /\ ~spec.matchers.entries[i].flag

\* the position of the string matcher among the configured ones, 0 if none
StringPosition ==
    LET es == FetchMatchers.entries
        at == {i \in 1..Len(es) : es[i].name = "string"}
    IN IF at = {} THEN 0 ELSE CHOOSE i \in at : TRUE

\* C12: the string transformer returns the raw value with succeeded = true
\* for every raw value, unless the string matcher is configured false: then
\* reaching it, alone or after every earlier matcher of the chain failed,
\* raises a solicited error.
C12_StringTransformer ==
    /\ Transformed("string") =>
          IF StringDisallowed
          THEN ~transformed.ok /\ transformed.err = "SolicitedError:string"
          ELSE transformed.ok /\ transformed.succeeded /\ transformed.value = rawValue
    /\ (Coerced /\ StringPosition # 0 /\ \A j \in 1..(StringPosition - 1) : Fails(j)) =>
          IF StringDisallowed
          THEN ~coerced.ok /\ coerced.err = "SolicitedError:string"
          ELSE coerced.ok /\ coerced.value = rawValue

\* C12 witness: number fails on "yes" and the string matcher, configured
\* false, ends the chain with the solicited error.
C12_Witness ==
    /\ Coerced
    /\ StringDisallowed
    /\ StringPosition = 2
    /\ Fails(1)
    /\ rawValue = Str(<<"y", "e", "s">>)
    /\ ~coerced.ok
    /\ coerced.err = "SolicitedError:string"
    /\ coerced.calls = <<FetchMatchers.entries[1].name, "string">>

EqualsIgnoringCase(s, word) == ToLower(s) = ToLower(word)

IsTrueWord(v) == v.t = "string" /\ EqualsIgnoringCase(v.str, <<"t", "r", "u", "e">>)

IsFalseWord(v) == v.t = "string" /\ EqualsIgnoringCase(v.str, <<"f", "a", "l", "s", "e">>)

\* C14: the boolean transformer succeeds exactly when the raw value is a
\* boolean or a string equal, ignoring case, to "true" or "false", and yields
\* that boolean; for every other string it reports succeeded = false with the
\* value false, and a chain of the boolean matcher alone keeps the string.
C14_BooleanTransformer ==
    /\ Transformed("boolean") =>
          /\ transformed.ok
          /\ transformed.succeeded <=>
                (rawValue.t = "boolean" \/ IsTrueWord(rawValue) \/ IsFalseWord(rawValue))
          /\ rawValue.t = "boolean" => transformed.value = rawValue
          /\ IsTrueWord(rawValue) => transformed.value = Bool(TRUE)
          /\ IsFalseWord(rawValue) => transformed.value = Bool(FALSE)
          /\ ~transformed.succeeded => transformed.value = Bool(FALSE)
    /\ (/\ Coerced
        /\ MatcherNames(Len(FetchMatchers.entries)) = <<"boolean">>
        /\ ~IsTrueWord(rawValue) /\ ~IsFalseWord(rawValue))
          => coerced.ok /\ coerced.value = rawValue

\* C14 witness: the upper case spelling TRUE becomes the boolean true.
C14_Witness ==
    /\ Transformed("boolean")
    /\ rawValue = Str(<<"T", "R", "U", "E">>)
    /\ transformed.succeeded
    /\ transformed.value = Bool(TRUE)

\* ------------------------------------------------------------------- C15
\* the opening sequence a literal of its type has to start with
OpenOf(v) ==
    CollectionOpenHead \o <<"<">> \o ExtractTypeFromCollectionValue(v.str) \o <<">">>
        \o CollectionOpenTail

\* v is a collection literal whose type is not one of the unary types
AssocLiteral(v) ==
    /\ v.t = "string"
    /\ ExtractTypeFromCollectionValue(v.str) # <<>>
    /\ StartsWith(v.str, OpenOf(v))
    /\ EndsWith(v.str, CollectionClose)
    /\ ~IsUnaryCollection(ExtractTypeFromCollectionValue(v.str))

\* the elements of the literal
LiteralElements(v) ==
    Split(CollectionDelim, SubSeq(v.str, Len(OpenOf(v)) + 1, Len(v.str) - Len(CollectionClose)))

MalformedAt(v) ==
    {i \in 1..Len(LiteralElements(v)) : Len(Split(AssocDelim, LiteralElements(v)[i])) # 2}

FirstMalformed(v) == CHOOSE i \in MalformedAt(v) : \A j \in MalformedAt(v) : i <= j

\* coercing the key or the value of the i-th (well formed) element raises
EntryRaises(v, i) ==
    LET parts == Split(AssocDelim, LiteralElements(v)[i])
    IN \/ ~TransformAssoc(FetchAssocKeyType, Str(parts[1])).ok
       \/ ~TransformAssoc(FetchAssocValueType, Str(parts[2])).ok

\* C15 (as claimed): in an associative collection literal an element that
\* does not split into exactly two parts on the inner delimiter makes the
\* transform raise a parse error.
C15_AsClaimed ==
    (Transformed("collection") /\ AssocLiteral(rawValue) /\ MalformedAt(rawValue) # {})
        => ~transformed.ok /\ transformed.err = "ParseError:malformed"

\* C15 (amended): such an element always makes the transform raise, never
\* return; the error is the parse error unless coercing the key or value of
\* an element before it raises first.
C15_MalformedEntryRaises ==
    (Transformed("collection") /\ AssocLiteral(rawValue) /\ MalformedAt(rawValue) # {})
        => /\ ~transformed.ok
           /\ IF \E j \in 1..(FirstMalformed(rawValue) - 1) : EntryRaises(rawValue, j)
              THEN transformed.err \in {"ConfigError:assoc", "SolicitedError:string"}
              ELSE transformed.err = "ParseError:malformed"

\* C15 witness: !<map>[a=1,b] raises the parse error on its second element.
C15_Witness ==
    /\ Transformed("collection")
    /\ rawValue = Str(<<"!", "<", "m", "a", "p", ">", "[", "a", "=", "1", ",", "b", "]">>)
    /\ MalformedAt(rawValue) = {2}
    /\ ~transformed.ok
    /\ transformed.err = "ParseError:malformed"

\* ------------------------------------------------------------------- C16
\* C16: every chain of nested buildElement calls is finite, whatever the
\* document and the parse info: followed call by call, recursion through the
\* recurse attribute and through child elements always reaches a call that
\* returns or throws.
C16_BuildTerminates == <>(pc \in {"returned", "thrown"})

\* C16 witness: a chain of calls that came back to an identifier it had met
\* two calls earlier is ended by the circular reference error.
C16_Witness ==
    /\ pc = "thrown"
    /\ Resolves
    /\ Len(frame.seen) >= 2
    /\ Includes(FrameIdentifier, frame.seen)

\* ------------------------------------------------------------------- C17
\* the nested call that builds element m with the list seen was made
Called(m, seen) == [node |-> m, seen |-> seen] \in result.calls

\* the i-th reference of the target is reached: it and every reference
\* before it select an element, and every reference before it was built
ReferenceReached(i) ==
    /\ \A j \in 1..i : Referenced(target, j) # NoNode
    /\ \A j \in 1..(i - 1) : InheritedResult(target, j).ok

\* every Command of the document is a child of the scope node
Flat == \A m \in Nodes : doc[m].tag = "Command" => doc[m].parent = 0

\* C17: every reference of a multi-reference list is resolved with the same
\* list, the caller's list plus the element's own identifier, whatever the
\* references before it added; the children are then built with the caller's
\* list unchanged; and among sibling elements an element reached along two
\* branches raises no circular-reference error when no cycle is reachable.
C17_SeenNotShared ==
    /\ (Done /\ Identifier(target) # <<>> /\ Len(References(target)) > 1) =>
          \A i \in 1..Len(References(target)) :
              ReferenceReached(i) => Called(Referenced(target, i), <<Identifier(target)>>)
    /\ Returned => \A c \in Nodes : doc[c].parent = target => Called(c, <<>>)
    /\ (Done /\ Flat /\ ~CycleReachable(target)) => result.err # "ConfigError:circular"

\* C17 witness: a inherits "b,c" and b inherits c; c is built below b with
\* the list a,b and again as a's own reference with the list a alone.
C17_Witness ==
    /\ Returned
    /\ Len(References(target)) = 2
    /\ ReferenceReached(2)
    /\ Referenced(target, 2) \in Edges(Referenced(target, 1))
    /\ Called(Referenced(target, 2), <<Identifier(target), Identifier(Referenced(target, 1))>>)
    /\ Called(Referenced(target, 2), <<Identifier(target)>>)

\* ------------------------------------------------------------------- C18
DoTrim == IF spec.trim = "absent" THEN FallBackTrim ELSE spec.trim = "true"

\* the concatenation, in document order, of the text and CDATA fragments
RECURSIVE TextOf(_)
TextOf(fs) ==
    IF fs = <<>> THEN <<>>
    ELSE (IF Head(fs).kind = "comment" THEN <<>>
          ELSE IF DoTrim THEN Trim(Head(fs).data) ELSE Head(fs).data)
         \o TextOf(Tail(fs))

\* C18 (as claimed): the text key is on the built element if and only if the
\* concatenation of the element's direct text/CDATA fragments, each trimmed
\* when trimming is configured, is non-empty, and its value is then exactly
\* that concatenation.
C18_AsClaimed ==
    Returned =>
        /\ TextLabel \in DOMAIN result.el.attrs <=> TextOf(doc[target].text) # <<>>
        /\ TextLabel \in DOMAIN result.el.attrs =>
              result.el.attrs[TextLabel] = TextOf(doc[target].text)

\* ------------------------------------------------------------------- C19
\* the outcome of the nested call c, taken on its own
Outcome(c) == BuildElement(c.node, c.seen)

C20_AsClaimed ==
    (Returned /\ result.el.hasDesc /\ result.el.desc.shape = "index") =>
        \A k \in DOMAIN result.el.desc.index :
            /\ Has(TargetInfo.id, result.el.desc.index[k])
            /\ result.el.desc.index[k].attrs[TargetInfo.id] = k

\* ------------------------------------------------------------------- C21
\* the built children of the target that carry identifier v, in document order
DirectCarrying(v) == SelectSeq(DirectChildren.els, LAMBDA e : Prop(TargetInfo.id, e) = v)

\* every element of every list of a grouped descendants value carries the
\* identifier the list is stored under
StoredUnderOwnIdentifier(desc) ==
    \A k \in DOMAIN desc.group : \A j \in 1..Len(desc.group[k]) :
        /\ Has(TargetInfo.id, desc.group[k][j])
        /\ Prop(TargetInfo.id, desc.group[k][j]) = k

\* C21 (as claimed): under by: group with every built child carrying the
\* identifier, the build raises nothing and the descendants are a mapping in
\* which each descendant appears exactly once, in the list stored under its
\* own identifier, the built children that share an identifier in document
\* order.
C21_AsClaimed ==
    (ChildrenBuilt /\ TargetInfo.by = "group" /\ AllHaveIdentifier)
        => /\ result.ok
           /\ result.el.hasDesc
           /\ result.el.desc.shape = "group"
           /\ StoredUnderOwnIdentifier(result.el.desc)
           /\ Count(result.el.desc)
                  = Len(DirectChildren.els) + InheritedCount(Len(Inherits(target)))
           /\ \A v \in Identifiers :
                  DirectCarrying(v) # <<>>
                      => /\ v \in DOMAIN result.el.desc.group
                         /\ SubSeq(result.el.desc.group[v], 1, Len(DirectCarrying(v)))
                                = DirectCarrying(v)

\* ------------------------------------------------------------------- C22
\* v is a collection literal: a type between angle brackets, opened and closed
CollectionLiteral(v) ==
    /\ v.t = "string"
    /\ ExtractTypeFromCollectionValue(v.str) # <<>>
    /\ StartsWith(v.str, OpenOf(v))
    /\ EndsWith(v.str, CollectionClose)

\* the type tag of the literal, in lower case
TagOf(v) == ToLower(ExtractTypeFromCollectionValue(v.str))

\* the tags the claim names as unary: [], Set and every typed array
ClaimedUnary == TypedArrayTypes \cup {<<"[", "]">>, <<"s", "e", "t">>}

\* C22 (as claimed): a collection literal whose type tag is, in any letter
\* case, [], Set or one for which createTypedCollection builds a typed array
\* is handled as a unary collection; every other literal as an associative
\* collection.
C22_AsClaimed ==
    (Transformed("collection") /\ CollectionLiteral(rawValue))
        => transformed =
              IF TagOf(rawValue) \in ClaimedUnary
              THEN TransformUnaryCollection(LiteralElements(rawValue))
              ELSE TransformAssociativeCollection(
                       ExtractTypeFromCollectionValue(rawValue.str), LiteralElements(rawValue))

\* ------------------------------------------------------------------- C23
\* the names transformAssoc accepts
AssocTypeNames == {"number", "boolean", "symbol", "string"}

\* the configured key type or value type holds a name that is not accepted
InvalidAssocType ==
    \/ \E i \in 1..Len(FetchAssocKeyType) : FetchAssocKeyType[i] \notin AssocTypeNames
    \/ \E i \in 1..Len(FetchAssocValueType) : FetchAssocValueType[i] \notin AssocTypeNames

\* the literal has an element and every element splits in two
WellFormed(v) == LiteralElements(v) # <<<<>>>> /\ MalformedAt(v) = {}

\* C23 (as claimed): with a key type or value type configured that holds a
\* name other than number, boolean, symbol and string, the transform of a
\* non-empty associative collection raises the configuration error, whatever
\* its keys and values are.
C23_AsClaimed ==
    (Transformed("collection") /\ AssocLiteral(rawValue) /\ WellFormed(rawValue)
        /\ InvalidAssocType)
        => ~transformed.ok /\ transformed.err = "ConfigError:assoc"

\* ------------------------------------------------------------------- C24
\* the target lists several references and each of them is built
MultiMerge ==
    /\ Done
    /\ Identifier(target) # <<>>
    /\ TargetInfo.recurse = "inherits"
    /\ Len(Inherits(target)) > 1
    /\ \A i \in 1..Len(Inherits(target)) :
          NameExists(target, Inherits(target)[i]) /\ InheritedResult(target, i).ok

\* the operands of the i-th pairwise merge of the reduce
MergeRight(i) == InheritedResult(target, i).el

MergeLeft(i) ==
    ReduceMerge(EmptyElement, [j \in 1..(i - 1) |-> InheritedResult(target, j).el])

BothCarry(i) == MergeLeft(i).ok /\ MergeLeft(i).el.hasDesc /\ MergeRight(i).hasDesc

\* C24 (as claimed): at every pairwise merge of the reduce over the built
\* results of a multi-reference list at most one operand carries descendants.
C24_AsClaimed ==
    MultiMerge => \A i \in 1..Len(Inherits(target)) : ~BothCarry(i)

\* a merge whose operands both carry descendants, one of them a mapping
MergeOfMapping ==
    \E i \in 1..Len(Inherits(target)) :
        BothCarry(i) /\ ~ConcatOk(MergeLeft(i).el.desc, MergeRight(i).desc)

\* C24 (amended): every referenced element is built completely, children
\* included, before the reduce, so both operands of a merge can carry
\* descendants; only the first merge has a left operand without any.  When
\* both carry a list the merge concatenates them, left operand first: an
\* element without child elements of its own ends with the descendants of
\* all its references in listed order.  When one of the two is a mapping the
\* merge raises a TypeError.
C24_BuiltElementsMerged ==
    MultiMerge
        => /\ ~MergeLeft(1).el.hasDesc
           /\ \A i \in 1..Len(Inherits(target)) :
                 MergeRight(i).hasDesc
                    = (\/ SelectChildren(Referenced(target, i)) # <<>>
                       \/ RecurseThroughAttribute(LocalElement(Referenced(target, i)),
                              Referenced(target, i), <<Identifier(target)>>).el.hasDesc)
           /\ IF MergeOfMapping THEN ~result.ok /\ result.err = "TypeError"
              ELSE SelectChildren(target) = <<>>
                      => /\ result.ok
                         /\ result.el.hasDesc = (WithDescendants # {})
                         /\ \A i \in WithDescendants :
                               IF MergeRight(i).desc.shape = "list"
                               THEN result.el.desc.list = InheritedList(Len(Inherits(target)))
                               ELSE result.el.desc = MergeRight(i).desc

\* C24 witness: both referenced elements have a child of their own; the
\* second merge has descendants on both sides and the element built holds
\* the two children, the first reference's first.
C24_Witness ==
    /\ MultiMerge
    /\ Len(Inherits(target)) = 2
    /\ SelectChildren(Referenced(target, 1)) # <<>>
    /\ SelectChildren(Referenced(target, 2)) # <<>>
    /\ BothCarry(2)
    /\ SelectChildren(target) = <<>>
    /\ result.ok
    /\ Len(result.el.desc.list) = 2
    /\ result.el.desc.list[1] = MergeRight(1).desc.list[1]
    /\ result.el.desc.list[2] = MergeRight(2).desc.list[1]
    /\ result.el.desc.list[1] # result.el.desc.list[2]

\* ------------------------------------------------------------------- C25
\* the elements a reference of n may resolve to: below the parent of n at any
\* depth, with the tag of n and the reference as identifier
Matches(n, at) ==
    {m \in Nodes : /\ IsDescendant(doc[n].parent, m)
                   /\ doc[m].tag = doc[n].tag
                   /\ GetElementInfo(doc[n].tag).id \in DOMAIN doc[m].attrs
                   /\ doc[m].attrs[GetElementInfo(doc[n].tag).id] = <<at>>}

FirstInDocument(S) == CHOOSE m \in S : \A o \in S : m <= o

\* the step is the nested call for a reference: the list grows
ResolutionStep == pc = "calling" /\ frame'.seen # frame.seen

\* the step raises the missing element error
MissingStep == pc = "calling" /\ pc' = "thrown" /\ ~Includes(FrameIdentifier, frame.seen)

\* C25: a reference resolves to the first element in document order among
\* the descendants, at any depth, of the parent of the inheriting element
\* that have its tag and an identifier equal to the reference; the missing
\* element error is raised only for a reference no such element matches.
C25_ReferenceResolution ==
    [][/\ ResolutionStep
          => \E i \in 1..Len(FrameReferences) :
                /\ Matches(frame.node, FrameReferences[i]) # {}
                /\ frame'.node = FirstInDocument(Matches(frame.node, FrameReferences[i]))
       /\ MissingStep
          => \E i \in 1..Len(FrameReferences) : Matches(frame.node, FrameReferences[i]) = {}]_vars

\* C25 witness: the inheriting element is a child of the first element and
\* names the identifier that element carries; the reference resolved to the
\* inheriting element's own child, the only match below its parent.
C25_Witness ==
    /\ pc = "calling"
    /\ target = 2
    /\ doc[2].parent = 1
    /\ doc[3].parent = 2
    /\ doc[1].attrs["name"] = doc[3].attrs["name"]
    /\ doc[2].attrs["name"] # doc[3].attrs["name"]
    /\ frame.seen = <<doc[2].attrs["name"]>>
    /\ frame.node = 3
    /\ Matches(2, doc[3].attrs["name"][1]) = {3}

\* ------------------------------------------------------------------- C26
\* the call made for the first child element of the node of call c
FirstChildCall(c) == [node |-> SelectChildren(c.node)[1], seen |-> c.seen]

\* call c gets as far as building its children
ReachesChildren(c) ==
    /\ SelectChildren(c.node) # <<>>
    /\ \/ GetElementInfo(NodeName(c.node)).recurse = ""
       \/ RecurseThroughAttribute(LocalElement(c.node), c.node, c.seen).ok

\* the call the caller of the converter made
TopCall == [node |-> target, seen |-> <<>>]

\* C26: every call that builds a child element carries the previously-seen
\* list of a call that builds its parent, a list without the identifier of
\* the parent; and a call that gets as far as its children hands them the
\* list it received.
C26_ChildrenGetCallersList ==
    Done => /\ \A d \in result.calls \ {TopCall} :
                  doc[d.node].parent # 0
                      => /\ \E c \in result.calls :
                               c.node = doc[d.node].parent /\ c.seen = d.seen
                         /\ ~Includes(Identifier(doc[d.node].parent), d.seen)
            /\ \A c \in result.calls : ReachesChildren(c) => FirstChildCall(c) \in result.calls

\* C26 witness: the target inherits an element that has a child and inherits
\* a third one: the child is built with the list of one identifier its
\* parent received, the third element with the list of two.
C26_Witness ==
    /\ Returned
    /\ \E d, c, e \in result.calls :
          /\ doc[d.node].parent = c.node
          /\ c.seen = <<Identifier(target)>>
          /\ d.seen = c.seen
          /\ e.seen = <<Identifier(target), Identifier(c.node)>>

\* ------------------------------------------------------------------- C27
\* the build returns the local attributes as a list under the label and has
\* made no call for another element
LocalListOnly ==
    /\ result.ok
    /\ DOMAIN result.el.attrs = {spec.attributesLabel}
    /\ Len(result.el.attrs[spec.attributesLabel]) = Cardinality(DOMAIN doc[target].attrs)
    /\ \A k \in DOMAIN doc[target].attrs :
          \E i \in 1..Len(result.el.attrs[spec.attributesLabel]) :
              /\ DOMAIN result.el.attrs[spec.attributesLabel][i] = {k}
              /\ result.el.attrs[spec.attributesLabel][i][k] = doc[target].attrs[k]
    /\ result.calls = {TopCall}

\* C27 (as claimed): with labels/attributes set, buildElement stores the
\* attributes as a list under the label and resolves no inheritance: nothing
\* is merged in and no circular or missing element error is raised.
C27_AsClaimed == (Done /\ spec.attributesLabel # "") => LocalListOnly

\* C27 (amended): the same, when the label is not the name of the identifier
\* attribute of the element's tag.
C27_LabelledNoInheritance ==
    (Done /\ spec.attributesLabel # "" /\ spec.attributesLabel # TargetInfo.id) => LocalListOnly

\* C27 witness: an element that names itself in its inherits attribute is
\* built under the label _attributes without an error.
C27_Witness ==
    /\ Done
    /\ spec.attributesLabel = "_attributes"
    /\ Identifier(target) # <<>>
    /\ Inherits(target) = Identifier(target)
    /\ LocalListOnly
    /\ Len(result.el.attrs["_attributes"]) >= 2

\* ------------------------------------------------------------------- C28
\* the target names one reference and the referenced element was built for it
ReferenceBuilt ==
    /\ Returned
    /\ Len(Inherits(target)) = 1
    /\ NameExists(target, Inherits(target)[1])
    /\ [node |-> Referenced(target, 1), seen |-> <<Identifier(target)>>] \in result.calls

\* the keys the target defines itself: its attributes and, when it has text
\* or CDATA of its own, the text key
OwnKeys ==
    (DOMAIN doc[target].attrs)
        \cup (IF TextOf(doc[target].text) # <<>> THEN {TextLabel} ELSE {})

\* C28 (as claimed): every key of the built result of the referenced element
\* that the inheriting element does not define and that is not discarded is
\* in the result of the inheriting element, the descendants and the text
\* included; an inheriting element without child elements and without text
\* of its own carries the descendants and the text of the referenced element.
C28_AsClaimed ==
    ReferenceBuilt
        => LET ref == InheritedResult(target, 1).el
           IN /\ \A k \in (DOMAIN ref.attrs) \ (OwnKeys \cup TargetInfo.discards) :
                    k \in DOMAIN result.el.attrs /\ result.el.attrs[k] = ref.attrs[k]
              /\ ref.hasDesc => result.el.hasDesc
              /\ (SelectChildren(target) = <<>> /\ TextOf(doc[target].text) = <<>>)
                    => /\ result.el.hasDesc = ref.hasDesc
                       /\ result.el.desc = ref.desc
                       /\ TextLabel \in DOMAIN ref.attrs
                             => /\ TextLabel \in DOMAIN result.el.attrs
                                /\ result.el.attrs[TextLabel] = ref.attrs[TextLabel]

\* ------------------------------------------------------------------- C29
\* the coerced key and value of the i-th element of a well formed literal
CoercedKey(v, i) ==
    TransformAssoc(FetchAssocKeyType, Str(Split(AssocDelim, LiteralElements(v)[i])[1]))

CoercedValue(v, i) ==
    TransformAssoc(FetchAssocValueType, Str(Split(AssocDelim, LiteralElements(v)[i])[2]))

\* the elements whose key and value are both coerced by a configured type
BothCoerced(v) ==
    {i \in 1..Len(LiteralElements(v)) :
        /\ CoercedKey(v, i).ok /\ CoercedKey(v, i).succeeded
        /\ CoercedValue(v, i).ok /\ CoercedValue(v, i).succeeded}

\* a well formed associative literal under key and value types that are all
\* accepted has been transformed
AssocTransformed ==
    /\ Transformed("collection")
    /\ AssocLiteral(rawValue)
    /\ WellFormed(rawValue)
    /\ ~InvalidAssocType

\* C29 (as claimed): a well formed pair whose key or value no configured
\* type coerces is left out without an error, the transform reports success
\* and the result has one entry per pair whose key and value both coerced.
C29_AsClaimed ==
    AssocTransformed
        => /\ transformed.ok
           /\ transformed.succeeded
           /\ Len(transformed.value.items) = Cardinality(BothCoerced(rawValue))

\* the result is keyed: a Map or an object
Keyed(v) == TagOf(v) \in {<<"m", "a", "p">>, <<"o", "b", "j", "e", "c", "t">>, <<"{", "}">>}

\* C29 (amended): such a pair is left out without an error and the transform
\* reports success; the pairs whose key and value both coerced are the
\* entries of the result, in order, except that in a Map or an object the
\* pairs with the same coerced key make one entry, which holds the value of
\* the last of them.
C29_UncoercedPairsOmitted ==
    AssocTransformed
        => LET items == transformed.value.items
               both == BothCoerced(rawValue)
               kept == SelectSeq([i \in 1..Len(LiteralElements(rawValue)) |-> i],
                                 LAMBDA i : i \in both)
           IN /\ transformed.ok
              /\ transformed.succeeded
              /\ IF Keyed(rawValue)
                 THEN /\ {items[n][1] : n \in 1..Len(items)}
                            = {CoercedKey(rawValue, i).value : i \in both}
                      /\ \A m, n \in 1..Len(items) : items[m][1] = items[n][1] => m = n
                      /\ \A n \in 1..Len(items) : \E i \in both :
                            /\ CoercedKey(rawValue, i).value = items[n][1]
                            /\ CoercedValue(rawValue, i).value = items[n][2]
                            /\ \A j \in both :
                                  CoercedKey(rawValue, j).value = items[n][1] => j <= i
                 ELSE items = [n \in 1..Len(kept) |->
                                  <<CoercedKey(rawValue, kept[n]).value,
                                    CoercedValue(rawValue, kept[n]).value>>]

\* C29 witness: under the key type number, !<map>[a=1,1=b] loses its first
\* pair, whose key is no number, and keeps the second.
C29_Witness ==
    /\ AssocTransformed
    /\ FetchAssocKeyType = <<"number">>
    /\ rawValue = Str(<<"!", "<", "m", "a", "p", ">", "[", "a", "=", "1", ",", "1", "=", "b", "]">>)
    /\ BothCoerced(rawValue) = {2}
    /\ transformed.ok
    /\ transformed.succeeded
    /\ Len(transformed.value.items) = 1
    /\ transformed.value.items[1][1] = Num(1)

\* ------------------------------------------------------------------- C30
\* the step builds the element again, under the other throwIfCollision
OtherFlagStep == pc = "flipped" /\ pc' = "rebuilt"

\* C30: descendants.throwIfCollision has no effect: a build under a parse
\* info that differs in it only gives the same element or the same error,
\* and the collision error is raised under throwIfMissing only.
C30_CollisionFlagIgnored ==
    /\ [][OtherFlagStep => result' = result]_vars
    /\ [](result.err = "SolicitedError:collision" => TargetInfo.throwIfMissing)

\* C30 witness: with throwIfCollision set and throwIfMissing not set, two
\* children with the same identifier are indexed without an error, the last
\* one kept, as they were when throwIfCollision was not set.
C30_Witness ==
    /\ pc = "rebuilt"
    /\ TargetInfo.by = "index"
    /\ TargetInfo.throwIfCollision
    /\ ~TargetInfo.throwIfMissing
    /\ Len(DirectChildren.els) = 2
    /\ AllHaveIdentifier
    /\ Prop(TargetInfo.id, DirectChildren.els[1]) = Prop(TargetInfo.id, DirectChildren.els[2])
    /\ result.ok
    /\ result.el.desc.shape = "index"
    /\ Cardinality(DOMAIN result.el.desc.index) = 1

====
